---- MODULE Spec2Model ----
(***************************************************************************)
(* Verification model of the storyboard document engine:                   *)
(*   - LectureBuilder._calculate_adaptive_spacing and the slide list of    *)
(*     LectureBuilder (engine/pptx_engine.py)                              *)
(*   - the DOCX cell/table helpers (engine/docx_engine.py,                 *)
(*     engine/rtl_helpers.py) and the DocxBuilder table builders.          *)
(* Lengths are integers: EMU for slides, DXA (twips) for DOCX tables.      *)
(***************************************************************************)
EXTENDS Integers, Sequences, FiniteSets, TLC

VARIABLES
    \* ---- one call of _calculate_adaptive_spacing ----
    item_count,         \* argument item_count
    available_top,      \* argument available_top (EMU)
    available_bottom,   \* argument available_bottom (EMU)
    min_item_height,    \* argument min_item_height (EMU)
    item_height,        \* returned item height (EMU)
    gap,                \* returned gap (EMU)
    apc,                \* "call" before the function ran, "returned" after
    \* ---- one DocxBuilder instance ----
    kind,               \* the builder class that was instantiated
    project_code,       \* self.project_code
    unit_number,        \* self.unit_number
    element_code,       \* self.element_code
    element_name,       \* self.element_name
    content,            \* self._content_values (Group A list / Group B dict)
    test_info,          \* <<self._test_description, self._test_instructions>>
    questions,          \* self._questions
    scenes,             \* self._scenes
    doc,                \* body of self.doc: tables and paragraphs in order
    built,              \* build() has run
    logo_left,          \* what self.logo_left_path names (see LogoStates)
    logo_right,         \* what self.logo_right_path names
    page_header,        \* the page header of self.doc
    page_footer,        \* the runs of the page footer of self.doc
    \* ---- the process and its file system ----
    exception,          \* the exception that escaped to the caller, "" if none
    dirs,               \* the directories that exist
    files,              \* the files written: path, body and header of the document
    \* ---- direct calls of the cell/table helpers on a table ----
    lastCall,           \* the helper call made last and the table before it
    diagnostics,        \* warnings the helpers have reported
    ncalls,             \* number of helper calls made
    shdElems,           \* the w:shd element objects created, each with its parent cell
    \* ---- one LectureBuilder instance ----
    prs,                \* self.prs: slide-id list, relationships, slide parts
    pptx_files,         \* the presentations written: path and self.prs as saved
    slide_count,        \* self.slide_count
    content_layout_cycle, \* self._content_layout_cycle
    calls,              \* the add_* methods called so far, in order
    last_args,          \* the arguments of the add_* call made last
    \* ---- two builder instances in one process ----
    world,              \* the objects of the process, the image files on disk and
                        \* the attributes of each of the two builders
    alone               \* per builder: the same for a process in which only
                        \* that builder exists and receives its calls

allocVars == <<item_count, available_top, available_bottom, min_item_height,
               item_height, gap, apc>>
builderVars == <<kind, project_code, unit_number, element_code, element_name,
                 content, test_info, questions, scenes, built,
                 logo_left, logo_right, page_header, page_footer, exception, dirs, files>>
helperVars == <<lastCall, diagnostics, ncalls, shdElems>>
lectureVars == <<prs, pptx_files, slide_count, content_layout_cycle, calls, last_args>>

pairVars == <<world, alone>>

vars == <<allocVars, builderVars, doc, helperVars, lectureVars, pairVars>>

----------------------------------------------------------------------------
(* Generic helpers *)

Max(a, b) == IF a >= b THEN a ELSE b

\* pptx.util.Cm / docx.shared.Cm for the arguments the engine uses, given in
\* hundredths of a centimetre: Cm(x) = int(x * 360000).
Cm(hundredths) == hundredths * 3600

----------------------------------------------------------------------------
(* Geometry / spacing allocator *)

\* min_gap = Cm(0.2)
min_gap == Cm(20)

\* Mutants of the allocator (plausible slips of the code)
CalcSpacing_GapCountOffByOne(n, top, bottom, min_h) ==
    IF n <= 0 THEN <<min_h, 0>>
    ELSE LET available == bottom - top
             total_needed == n * min_h + n * min_gap
         IN IF total_needed <= available
            THEN <<min_h, (available - n * min_h) \div Max(n - 1, 1)>>
            ELSE <<(available - min_gap * Max(n - 1, 0)) \div n, min_gap>>

CalcSpacing_ShrinkIgnoresGaps(n, top, bottom, min_h) ==
    IF n <= 0 THEN <<min_h, 0>>
    ELSE LET available == bottom - top
             total_needed == n * min_h + Max(n - 1, 0) * min_gap
         IN IF total_needed <= available
            THEN <<min_h, (available - n * min_h) \div Max(n - 1, 1)>>
            ELSE <<available \div n, min_gap>>

CalcSpacing_GapFromWholeSpan(n, top, bottom, min_h) ==
    IF n <= 0 THEN <<min_h, 0>>
    ELSE LET available == bottom - top
             total_needed == n * min_h + Max(n - 1, 0) * min_gap
         IN IF total_needed <= available
            THEN <<min_h, available \div Max(n - 1, 1)>>
            ELSE <<(available - min_gap * Max(n - 1, 0)) \div n, min_gap>>

CalcSpacing_StrictFit(n, top, bottom, min_h) ==
    IF n <= 0 THEN <<min_h, 0>>
    ELSE LET available == bottom - top
             total_needed == n * min_h + Max(n - 1, 0) * min_gap
         IN IF total_needed < available
            THEN <<min_h, (available - n * min_h) \div Max(n - 1, 1)>>
            ELSE <<(available - min_gap * Max(n - 1, 0)) \div n, min_gap>>

\* Mutant: the spare space is shared out rounding the gap up
CalcSpacing_GapRoundsUp(n, top, bottom, min_h) ==
    IF n <= 0 THEN <<min_h, 0>>
    ELSE LET available == bottom - top
             total_needed == n * min_h + Max(n - 1, 0) * min_gap
         IN IF total_needed <= available
            THEN <<min_h, (available - n * min_h + Max(n - 1, 1) - 1) \div Max(n - 1, 1)>>
            ELSE <<(available - min_gap * Max(n - 1, 0)) \div n, min_gap>>

\* LectureBuilder._calculate_adaptive_spacing: returns <<item_height, gap>>.
\* Python's // is floor division, as is \div.
CalculateAdaptiveSpacing(n, top, bottom, min_h) ==
    IF n <= 0 THEN <<min_h, 0>>
    ELSE LET available == bottom - top
             total_needed == n * min_h + Max(n - 1, 0) * min_gap
         IN IF total_needed <= available
            THEN LET h == min_h
                     remaining == available - (n * h)
                 IN <<h, remaining \div Max(n - 1, 1)>>
            ELSE LET g == min_gap
                     total_gaps == g * Max(n - 1, 0)
                 IN <<(available - total_gaps) \div n, g>>

----------------------------------------------------------------------------
(* DOCX element tree: property containers are sequences of child elements *)

\* One child element of a property container (w:tcPr, w:tblPr, w:pPr):
\* tag, numeric attribute, string attribute, second string attribute and a
\* tuple of per-edge numbers.
Elem(tag, n, str, str2, e) == [tag |-> tag, n |-> n, s |-> str, s2 |-> str2, e |-> e]

HasTag(seq, tag) == \E i \in 1..Len(seq) : seq[i].tag = tag

\* element.find(qn(tag)): index of the first child with the tag, 0 for None
IndexOfTag(seq, tag) ==
    IF HasTag(seq, tag)
    THEN CHOOSE i \in 1..Len(seq) :
            /\ seq[i].tag = tag
            /\ \A j \in 1..(i - 1) : seq[j].tag # tag
    ELSE 0

CountTag(seq, tag) == Cardinality({i \in 1..Len(seq) : seq[i].tag = tag})

\* parent.remove(child) for every child with the tag
RemoveTag(seq, tag) == SelectSeq(seq, LAMBDA x : x.tag # tag)

InsertAt(seq, i, el) == SubSeq(seq, 1, i - 1) \o <<el>> \o SubSeq(seq, i, Len(seq))

\* BaseOxmlElement.first_child_found_in(*tagnames): the child found for the
\* first tag name, in the order of the tag names, that has a child.
FirstChildFoundIn(seq, tags) ==
    LET present == {k \in 1..Len(tags) : HasTag(seq, tags[k])}
    IN IF present = {} THEN 0
       ELSE LET k == CHOOSE x \in present : \A y \in present : x <= y
            IN IndexOfTag(seq, tags[k])

\* BaseOxmlElement.insert_element_before(elm, *tagnames)
InsertElementBefore(seq, el, tags) ==
    LET i == FirstChildFoundIn(seq, tags)
    IN IF i = 0 THEN Append(seq, el) ELSE InsertAt(seq, i, el)

\* The child sequence python-docx declares for w:tcPr and w:pPr (the part
\* of it this engine touches); the successors of a tag are the tags after it.
TcPrTagSeq == <<"tcW", "gridSpan", "vMerge", "tcBorders", "shd", "tcMar", "vAlign">>
PPrTagSeq == <<"bidi", "spacing", "ind", "jc", "rPr">>

RECURSIVE PositionIn(_, _)
PositionIn(tags, tag) ==
    IF tags = <<>> THEN 0
    ELSE IF Head(tags) = tag THEN 1
    ELSE LET r == PositionIn(Tail(tags), tag) IN IF r = 0 THEN 0 ELSE r + 1

Successors(tags, tag) == SubSeq(tags, PositionIn(tags, tag) + 1, Len(tags))

\* The successor list docx_set_paragraph_rtl passes for w:bidi
BidiSuccessors == <<"adjustRightInd", "snapToGrid", "spacing", "ind",
                    "contextualSpacing", "mirrorIndents", "suppressOverlap",
                    "jc", "textDirection", "textAlignment", "textboxTightWrap",
                    "outlineLvl", "divId", "cnfStyle", "rPr", "sectPr",
                    "pPrChange">>

TcW(w) == Elem("tcW", w, "dxa", "", <<>>)
GridSpan(k) == Elem("gridSpan", k, "", "", <<>>)
Shd(fill) == Elem("shd", 0, fill, "", <<>>)
VAlign(v) == Elem("vAlign", 0, v, "", <<>>)
\* w:tcMar children as <<top, bottom, start, end>>, 0 for an absent side
TcMar(e) == Elem("tcMar", 0, "", "", e)
\* w:tcBorders children as sizes <<top, left, bottom, right>>, 0 for an
\* edge that was not passed
TcBorders(e) == Elem("tcBorders", 0, "single", "000000", e)

\* A paragraph: its w:pPr children and its runs
EmptyPara == [pPr |-> <<>>, runs |-> <<>>]

\* A cell as document.add_table creates it: w:tcPr with w:tcW, one empty w:p
NewCell(w) == [tcPr |-> <<TcW(w)>>, paras |-> <<EmptyPara>>]

\* CT_Tc.grid_span and CT_Tc.width getters
GridSpanOf(cell) ==
    IF HasTag(cell.tcPr, "gridSpan")
    THEN cell.tcPr[IndexOfTag(cell.tcPr, "gridSpan")].n ELSE 1
WidthOf(cell) ==
    IF HasTag(cell.tcPr, "tcW")
    THEN cell.tcPr[IndexOfTag(cell.tcPr, "tcW")].n ELSE 0

\* ---- cell helpers of docx_engine.py / rtl_helpers.py ----

\* _set_cell_width
SetCellWidth(cell, width_dxa) ==
    LET i == IndexOfTag(cell.tcPr, "tcW")
    IN IF i = 0
       THEN [cell EXCEPT !.tcPr = Append(@, TcW(width_dxa))]
       ELSE [cell EXCEPT !.tcPr[i].n = width_dxa, !.tcPr[i].s = "dxa"]

\* _set_cell_vertical_alignment
SetCellVerticalAlignment(cell, alignment) ==
    LET i == IndexOfTag(cell.tcPr, "vAlign")
    IN IF i = 0
       THEN [cell EXCEPT !.tcPr = Append(@, VAlign(alignment))]
       ELSE [cell EXCEPT !.tcPr[i].s = alignment]

\* _set_cell_margins: sides in the order top, bottom, start (= right),
\* end (= left); a side of 0 stands for None and is left as it is.
SetCellMargins(cell, top, bottom, left, right) ==
    LET i == IndexOfTag(cell.tcPr, "tcMar")
        old == IF i = 0 THEN <<0, 0, 0, 0>> ELSE cell.tcPr[i].e
        new == <<IF top # 0 THEN top ELSE old[1],
                 IF bottom # 0 THEN bottom ELSE old[2],
                 IF right # 0 THEN right ELSE old[3],
                 IF left # 0 THEN left ELSE old[4]>>
    IN IF i = 0
       THEN [cell EXCEPT !.tcPr = Append(@, TcMar(new))]
       ELSE [cell EXCEPT !.tcPr[i].e = new]

\* docx_set_cell_shading / _set_cell_shading: a new w:shd is appended
DocxSetCellShading(cell, color_hex) ==
    [cell EXCEPT !.tcPr = Append(@, Shd(color_hex))]

\* docx_set_cell_borders: a new w:tcBorders is appended
DocxSetCellBorders(cell, edges) ==
    [cell EXCEPT !.tcPr = Append(@, TcBorders(edges))]

\* docx_set_paragraph_rtl / _set_paragraph_bidi
DocxSetParagraphRtl(para) ==
    [para EXCEPT !.pPr = InsertElementBefore(@, Elem("bidi", 0, "", "", <<>>),
                                             BidiSuccessors)]

\* paragraph.alignment = alignment (python-docx places w:jc by its successors)
SetParagraphAlignment(para, alignment) ==
    LET i == IndexOfTag(para.pPr, "jc")
    IN IF i = 0
       THEN [para EXCEPT !.pPr = InsertElementBefore(@,
                                   Elem("jc", 0, alignment, "", <<>>),
                                   Successors(PPrTagSeq, "jc"))]
       ELSE [para EXCEPT !.pPr[i].s = alignment]

\* _set_paragraph_spacing: e = <<before, after, line>>, 0 stands for None
SetParagraphSpacing(para, before, after, line) ==
    LET i == IndexOfTag(para.pPr, "spacing")
        p1 == IF i = 0
              THEN [para EXCEPT !.pPr = Append(@, Elem("spacing", 0, "", "", <<0, 0, 0>>))]
              ELSE para
        j == IndexOfTag(p1.pPr, "spacing")
        old == p1.pPr[j].e
    IN [p1 EXCEPT !.pPr[j].e = <<IF before # 0 THEN before ELSE old[1],
                                 IF after # 0 THEN after ELSE old[2],
                                 IF line # 0 THEN line ELSE old[3]>>,
                  !.pPr[j].s = IF line # 0 THEN "auto" ELSE @]

\* _add_rtl_run: the run gets its font in the ascii, hAnsi and cs slots and
\* the w:rtl flag
AddRtlRun(para, text, font_name) ==
    [para EXCEPT !.runs = Append(@, [text |-> text, font |-> font_name,
                                     cs |-> font_name, rtl |-> TRUE])]

FONT_BODY == "Sakkal Majalla"

\* _write_cell; shading_hex = "" and vertical_alignment = "" stand for None,
\* line_spacing = 0 and space_after = 0 stand for None.
WriteCell(cell, text, alignment, rtl, shading_hex, vertical_alignment, line_spacing, space_after) ==
    LET cleared == [cell EXCEPT !.paras = [k \in 1..Len(@) |-> [@[k] EXCEPT !.runs = <<>>]]]
        p0 == cleared.paras[1]
        p1 == SetParagraphAlignment(p0, alignment)
        p2 == IF rtl THEN DocxSetParagraphRtl(p1) ELSE p1
        p3 == AddRtlRun(p2, text, FONT_BODY)
        p4 == IF line_spacing # 0 \/ space_after # 0
              THEN SetParagraphSpacing(p3, 0, space_after, line_spacing)
              ELSE p3
        c1 == [cleared EXCEPT !.paras[1] = p4]
        c2 == IF shading_hex # "" THEN DocxSetCellShading(c1, shading_hex) ELSE c1
        c3 == IF vertical_alignment # ""
              THEN SetCellVerticalAlignment(c2, vertical_alignment) ELSE c2
    IN SetCellMargins(c3, 57, 57, 85, 85)

\* ---- tables ----

\* Emu(x).twips = int(round(x / 635.0)) and Twips(t) = t * 635
TwipsOf(emu) == (2 * emu + 635) \div 1270
EmuOfTwips(t) == t * 635

PAGE_WIDTH_CM == 2970
MARGIN_CM == 254

\* Document._block_width: the page width less the side margins, each read
\* back from the twips stored in the section properties by _setup_page
BlockWidth ==
    EmuOfTwips(TwipsOf(Cm(PAGE_WIDTH_CM))) - 2 * EmuOfTwips(TwipsOf(Cm(MARGIN_CM)))

\* The width document.add_table gives every cell of a table of `cols` columns
DefaultColWidth(cols) == TwipsOf(BlockWidth \div cols)

\* document.add_table(rows, cols): w:tblPr with an automatic w:tblW, and a
\* grid of new cells
AddTable(nrows, ncols) ==
    [kind |-> "",
     cols |-> ncols,
     tblPr |-> <<Elem("tblW", 0, "auto", "", <<>>)>>,
     rows |-> [r \in 1..nrows |-> [c \in 1..ncols |-> NewCell(DefaultColWidth(ncols))]]]

\* _set_table_bidi / docx_set_table_rtl: w:bidiVisual and a fixed layout
SetTableBidi(t) ==
    LET a == IF HasTag(t.tblPr, "bidiVisual") THEN t.tblPr
             ELSE InsertElementBefore(t.tblPr, Elem("bidiVisual", 0, "", "", <<>>),
                                      <<"tblW", "jc", "tblInd", "tblBorders", "tblLayout">>)
        i == IndexOfTag(a, "tblLayout")
    IN [t EXCEPT !.tblPr = IF i = 0 THEN Append(a, Elem("tblLayout", 0, "fixed", "", <<>>))
                           ELSE [a EXCEPT ![i].s = "fixed"]]

\* _set_table_width
SetTableWidth(t, width_dxa) ==
    LET i == IndexOfTag(t.tblPr, "tblW")
    IN IF i = 0
       THEN [t EXCEPT !.tblPr = Append(@, Elem("tblW", width_dxa, "dxa", "", <<>>))]
       ELSE [t EXCEPT !.tblPr[i].n = width_dxa, !.tblPr[i].s = "dxa"]

\* _set_table_borders: an existing w:tblBorders is removed, a new one appended
SetTableBorders(t, outer_sz, inner_sz, outer_color, inner_color) ==
    LET i == IndexOfTag(t.tblPr, "tblBorders")
        kept == IF i = 0 THEN t.tblPr
                ELSE SubSeq(t.tblPr, 1, i - 1) \o SubSeq(t.tblPr, i + 1, Len(t.tblPr))
    IN [t EXCEPT !.tblPr = Append(kept, Elem("tblBorders", 0, outer_color, inner_color,
                                             <<outer_sz, inner_sz>>))]

\* _set_table_indent
SetTableIndent(t, indent_dxa) ==
    LET i == IndexOfTag(t.tblPr, "tblInd")
        kept == IF i = 0 THEN t.tblPr
                ELSE SubSeq(t.tblPr, 1, i - 1) \o SubSeq(t.tblPr, i + 1, Len(t.tblPr))
    IN [t EXCEPT !.tblPr = Append(kept, Elem("tblInd", indent_dxa, "dxa", "", <<>>))]

TableWidthOf(t) ==
    IF HasTag(t.tblPr, "tblW") THEN t.tblPr[IndexOfTag(t.tblPr, "tblW")].n ELSE 0

\* Grid columns covered by the first k cells of a row
RECURSIVE SpanSum(_, _)
SpanSum(row, k) == IF k = 0 THEN 0 ELSE SpanSum(row, k - 1) + GridSpanOf(row[k])

\* Sum of the declared widths of the cells of a row
RECURSIVE WidthSum(_, _)
WidthSum(row, k) == IF k = 0 THEN 0 ELSE WidthSum(row, k - 1) + WidthOf(row[k])

\* table.cell(row_idx, col_idx): Table._cells lists every cell once per
\* grid column it spans; an index past the end raises IndexError.
CellInRange(t, row_idx, col_idx) ==
    /\ row_idx >= 0 /\ col_idx >= 0
    /\ col_idx + row_idx * t.cols < Len(t.rows) * t.cols

\* <<row, position in the row>> (1-based) of table.cell(row_idx, col_idx)
CellAt(t, row_idx, col_idx) ==
    LET idx == col_idx + row_idx * t.cols
        r == (idx \div t.cols) + 1
        c == idx % t.cols
        row == t.rows[r]
    IN <<r, CHOOSE i \in 1..Len(row) : SpanSum(row, i - 1) <= c /\ c < SpanSum(row, i)>>

\* CT_Tc.grid_span setter: w:gridSpan removed, re-added in its place if > 1
SetGridSpan(cell, value) ==
    LET removed == RemoveTag(cell.tcPr, "gridSpan")
    IN [cell EXCEPT !.tcPr =
            IF value > 1
            THEN InsertElementBefore(removed, GridSpan(value),
                                     Successors(TcPrTagSeq, "gridSpan"))
            ELSE removed]

\* CT_Tc.width setter: w:tcW found or inserted in its place
SetTcWidth(cell, w) ==
    LET i == IndexOfTag(cell.tcPr, "tcW")
    IN IF i = 0
       THEN [cell EXCEPT !.tcPr = InsertElementBefore(@, TcW(w), Successors(TcPrTagSeq, "tcW"))]
       ELSE [cell EXCEPT !.tcPr[i].n = w, !.tcPr[i].s = "dxa"]

\* CT_Tc._is_empty: a single paragraph without runs
IsEmptyCell(cell) == Len(cell.paras) = 1 /\ cell.paras[1].runs = <<>>

\* CT_Tc._swallow_next_tc: content moved, widths added, spans added, the
\* next cell removed
SwallowNext(row, i) ==
    LET self == row[i]
        next == row[i + 1]
        moved == IF IsEmptyCell(next) THEN self
                 ELSE LET n == Len(self.paras)
                          kept == IF n > 0 /\ self.paras[n].runs = <<>>
                                  THEN SubSeq(self.paras, 1, n - 1) ELSE self.paras
                      IN [self EXCEPT !.paras = kept \o next.paras]
        widened == IF WidthOf(moved) # 0 /\ WidthOf(next) # 0
                   THEN SetTcWidth(moved, WidthOf(moved) + WidthOf(next))
                   ELSE moved
        spanned == SetGridSpan(widened, GridSpanOf(self) + GridSpanOf(next))
    IN SubSeq(row, 1, i - 1) \o <<spanned>> \o SubSeq(row, i + 2, Len(row))

\* CT_Tc._span_to_width: swallow following cells until the span is reached
RECURSIVE SpanToWidth(_, _, _)
SpanToWidth(row, i, grid_width) ==
    IF GridSpanOf(row[i]) < grid_width
    THEN SpanToWidth(SwallowNext(row, i), i, grid_width)
    ELSE [row EXCEPT ![i] = [@ EXCEPT !.tcPr = RemoveTag(@, "vMerge")]]

\* CT_Tc._raise_on_invalid_swallow, for every swallow the merge would do:
\* no next cell, or the next cell reaches past the requested span
RECURSIVE SwallowRaises(_, _, _, _)
SwallowRaises(row, i, k, grid_width) ==
    \* k: the cell that would be swallowed next; the span grown so far is
    \* SpanSum(row, k - 1) - SpanSum(row, i - 1)
    LET grown == SpanSum(row, k - 1) - SpanSum(row, i - 1)
    IN IF grown >= grid_width THEN FALSE
       ELSE IF k > Len(row) THEN TRUE
       ELSE IF grown + GridSpanOf(row[k]) > grid_width THEN TRUE
       ELSE SwallowRaises(row, i, k + 1, grid_width)

\* Mutant: the merge stops one grid column short of end_col
MergeCellsInRow_OneShort(t, row_idx, start_col, end_col) ==
    LET a == CellAt(t, row_idx, start_col)
        b == CellAt(t, row_idx, end_col)
        r == a[1]
        row == t.rows[r]
        left == IF a[2] <= b[2] THEN a[2] ELSE b[2]
        lastc == IF a[2] >= b[2] THEN a[2] ELSE b[2]
        width == SpanSum(row, lastc) - SpanSum(row, left - 1) - 1
    IN [t EXCEPT !.rows[r] = SpanToWidth(row, left, width)]

\* _merge_cells_in_row -> _Cell.merge -> CT_Tc.merge, for two cells of one
\* row: the span runs from the leftmost left edge to the rightmost right edge
MergeCellsInRow(t, row_idx, start_col, end_col) ==
    LET a == CellAt(t, row_idx, start_col)
        b == CellAt(t, row_idx, end_col)
        r == a[1]
        row == t.rows[r]
        left == IF a[2] <= b[2] THEN a[2] ELSE b[2]
        lastc == IF a[2] >= b[2] THEN a[2] ELSE b[2]
        width == SpanSum(row, lastc) - SpanSum(row, left - 1)
    IN [t EXCEPT !.rows[r] = SpanToWidth(row, left, width)]

\* Whether _merge_cells_in_row raises: IndexError from table.cell, or
\* InvalidSpanError from the merge
MergeRaises(t, row_idx, start_col, end_col) ==
    \/ ~CellInRange(t, row_idx, start_col)
    \/ ~CellInRange(t, row_idx, end_col)
    \/ LET a == CellAt(t, row_idx, start_col)
           b == CellAt(t, row_idx, end_col)
           row == t.rows[a[1]]
           left == IF a[2] <= b[2] THEN a[2] ELSE b[2]
           lastc == IF a[2] >= b[2] THEN a[2] ELSE b[2]
       IN SwallowRaises(row, left, left + 1,
                        SpanSum(row, lastc) - SpanSum(row, left - 1))

\* ---- constants of docx_engine.py ----

COLOR_HEADER_BG == "31849B"
COLOR_LABEL_BG == "DBE5F1"
COLOR_WHITE == "FFFFFF"
COLOR_BLACK == "000000"
COLOR_VIDEO_SCENE == "CFE2F3"

META_TABLE_WIDTH == 13950
META_COL0_WIDTH == 4050
META_COL1_WIDTH == 9900
GROUP_A_TABLE_WIDTH == 14175
GROUP_A_COL0_WIDTH == 3015
GROUP_A_COL1_WIDTH == 11160
GROUP_B_TABLE_WIDTH == 13950
GROUP_B_COL0_WIDTH == 3330
GROUP_B_COL1_WIDTH == 10620
TEST_INFO_TABLE_WIDTH == 14175
TEST_INFO_COL0_WIDTH == 3018
TEST_INFO_COL1_WIDTH == 11157
TEST_Q_TABLE_WIDTH == 14678
TEST_Q_COL_WIDTHS == <<3240, 4433, 4050, 2955>>
ACTIVITY_TABLE_WIDTH == 13950
ACTIVITY_COL0_WIDTH == 4050
ACTIVITY_COL1_WIDTH == 9900
VIDEO_TABLE_WIDTH == 13960
VIDEO_COL_WIDTHS == <<3490, 3002, 4418, 3050>>

\* ---- helper calls as the builders issue them ----
\* A builder method is the list of its helper calls in program order; every
\* call addresses its cell through table.cell(row, col) at the time it runs.

OpWidth(r, c, w) == [f |-> "width", r |-> r, c |-> c, w |-> w]
OpMerge(r, c, c2) == [f |-> "merge", r |-> r, c |-> c, c2 |-> c2]
OpWrite(r, c, text, alignment, shading_hex, vertical_alignment, line_spacing) ==
    [f |-> "write", r |-> r, c |-> c, text |-> text, alignment |-> alignment,
     shading |-> shading_hex, valign |-> vertical_alignment, line |-> line_spacing]
OpBorders(r, c, e) == [f |-> "borders", r |-> r, c |-> c, e |-> e]
OpSpacing(r, c, before, after) ==
    [f |-> "spacing", r |-> r, c |-> c, before |-> before, after |-> after]

\* The cell a call addresses, rewritten by the helper
ApplyToCell(t, op) ==
    LET at == CellAt(t, op.r, op.c)
        cell == t.rows[at[1]][at[2]]
        new == CASE op.f = "width" -> SetCellWidth(cell, op.w)
                 [] op.f = "write" -> WriteCell(cell, op.text, op.alignment, TRUE,
                                                op.shading, op.valign, op.line, 120)
                 [] op.f = "borders" -> DocxSetCellBorders(cell, op.e)
                 [] op.f = "spacing" ->
                        [cell EXCEPT !.paras[1] =
                            SetParagraphSpacing(@, op.before, op.after, 0)]
    IN [t EXCEPT !.rows[at[1]][at[2]] = new]

ApplyOp(t, op) ==
    IF op.f = "merge" THEN MergeCellsInRow(t, op.r, op.c, op.c2)
    ELSE ApplyToCell(t, op)

\* The calls ops[i..] applied in program order; the table a call leaves is
\* bound as a value before the next call runs
RECURSIVE RunOpsFrom(_, _, _)
RunOpsFrom(t, ops, i) ==
    IF i > Len(ops) THEN t
    ELSE CHOOSE res \in {RunOpsFrom(nxt, ops, i + 1) : nxt \in {ApplyOp(t, ops[i])}} : TRUE

RunOps(t, ops) == RunOpsFrom(t, ops, 1)

RECURSIVE Flatten(_)
Flatten(ss) == IF ss = <<>> THEN <<>> ELSE Head(ss) \o Flatten(Tail(ss))

\* ---- the table builders of the DocxBuilder classes ----

GroupAKinds == {"Objectives", "Summary", "Infographic"}
GroupBKinds == {"Discussion", "Assignment"}
Kinds == GroupAKinds \cup GroupBKinds \cup {"Test", "Activity", "Video"}

\* A blank body paragraph (document.add_paragraph()), as a body item
BodyParagraph == [kind |-> "p", cols |-> 0, tblPr |-> <<>>, rows |-> <<>>]

\* str(unit_number).zfill(2)
ZFill2(n) == IF n < 10 THEN "0" \o ToString(n) ELSE ToString(n)

\* The auto-generated element code of DocxBuilder.create_metadata_table
AutoElementCode(pcode, unit) == pcode \o "_U" \o ZFill2(unit)

\* document.add_table followed by the three table-level calls every
\* builder starts with
StartTable(role, nrows, ncols, width_dxa, outer_sz, inner_sz, inner_color) ==
    LET t0 == [AddTable(nrows, ncols) EXCEPT !.kind = role]
        t1 == SetTableBidi(t0)
        t2 == SetTableWidth(t1, width_dxa)
    IN SetTableBorders(t2, outer_sz, inner_sz, COLOR_BLACK, inner_color)

\* DocxBuilder.create_metadata_table: rows_data as <<label, value, label
\* shading, value shading>>, then the calls of the row loop and of
\* _set_metadata_cell_borders
MetaRowsData(code, name) ==
    << <<"TEMPLATE_TITLE", "", COLOR_HEADER_BG, COLOR_HEADER_BG>>,
       <<"element_code", code, COLOR_LABEL_BG, "">>,
       <<"project_name", "project", COLOR_LABEL_BG, COLOR_WHITE>>,
       <<"unit", "unit", COLOR_LABEL_BG, COLOR_WHITE>>,
       <<"element_name", name, COLOR_LABEL_BG, COLOR_WHITE>>,
       <<"designer", "designer", COLOR_LABEL_BG, "">>,
       <<"date", "date", COLOR_LABEL_BG, "">> >>

\* VideoBuilder.create_metadata_table: six rows, no unit row
VideoMetaRowsData(code, name) ==
    << <<"TEMPLATE_TITLE", "", COLOR_HEADER_BG, COLOR_HEADER_BG>>,
       <<"element_code", code, COLOR_LABEL_BG, COLOR_WHITE>>,
       <<"project_name", "project", COLOR_LABEL_BG, COLOR_WHITE>>,
       <<"element_name", name, COLOR_LABEL_BG, COLOR_WHITE>>,
       <<"designer", "designer", COLOR_LABEL_BG, "">>,
       <<"date", "date", COLOR_LABEL_BG, COLOR_WHITE>> >>

MetaRowOps(i, d) ==
    <<OpWidth(i, 0, META_COL0_WIDTH), OpWidth(i, 1, META_COL1_WIDTH)>> \o
    (IF i = 0
     THEN <<OpMerge(0, 0, 1),
            OpWidth(0, 0, META_TABLE_WIDTH),
            OpWrite(0, 0, d[1], "center", d[3], "center", 276)>>
     ELSE <<OpWrite(i, 0, d[1], "right", d[3], "center", 276),
            OpWrite(i, 1, d[2], "right", d[4], "center", 276)>>)

\* Mutant: the header row gets the medium frame of the data rows
MetaBorderOps_HeaderMedium(nrows, ncols) ==
    Flatten([r \in 1..nrows |->
                [c \in 1..ncols |-> OpBorders(r - 1, c - 1, <<8, 8, 8, 8>>)]])

\* _set_metadata_cell_borders: every (row, column) index, the header row
\* with thick top/left/right and medium bottom; edges as <<top, left,
\* bottom, right>>
MetaBorderOps(nrows, ncols) ==
    Flatten([r \in 1..nrows |->
                [c \in 1..ncols |->
                    OpBorders(r - 1, c - 1,
                              IF r = 1 THEN <<12, 12, 8, 12>> ELSE <<8, 8, 8, 8>>)]])

\* The border loop at the end of VideoBuilder.create_metadata_table
VideoMetaBorderOps(nrows, ncols) ==
    Flatten([r \in 1..nrows |->
                [c \in 1..ncols |-> OpBorders(r - 1, c - 1, <<8, 8, 8, 8>>)]])

CreateMetadataTable(code, name) ==
    LET data == MetaRowsData(code, name)
        t == StartTable("meta", Len(data), 2, META_TABLE_WIDTH, 4, 18, COLOR_WHITE)
    IN RunOps(t, Flatten([i \in 1..Len(data) |-> MetaRowOps(i - 1, data[i])])
                 \o MetaBorderOps(Len(data), 2))

VideoCreateMetadataTable(code, name) ==
    LET data == VideoMetaRowsData(code, name)
        t == StartTable("meta", Len(data), 2, META_TABLE_WIDTH, 4, 18, COLOR_WHITE)
    IN RunOps(t, Flatten([i \in 1..Len(data) |-> MetaRowOps(i - 1, data[i])])
                 \o VideoMetaBorderOps(Len(data), 2))

\* _GroupABuilder.build_content
GroupABuildContent(values) ==
    LET t == StartTable("content", 1 + Len(values), 2, GROUP_A_TABLE_WIDTH, 4, 4, COLOR_BLACK)
        header == <<OpMerge(0, 0, 1),
                    OpWidth(0, 0, GROUP_A_TABLE_WIDTH),
                    OpWrite(0, 0, "CONTENT_TABLE_HEADER", "center", COLOR_LABEL_BG,
                            "center", 276)>>
        rowOps(i) ==
            <<OpWidth(i + 1, 0, GROUP_A_COL0_WIDTH),
              OpWidth(i + 1, 1, GROUP_A_COL1_WIDTH),
              OpWrite(i + 1, 0, "label", "center", COLOR_WHITE,
                      IF i >= 2 THEN "center" ELSE "", 276),
              OpWrite(i + 1, 1, values[i + 1],
                      IF i = 0 THEN "center" ELSE "right", "", "", 360)>>
    IN RunOps(t, header \o Flatten([k \in 1..Len(values) |-> rowOps(k - 1)]))

\* _GroupBBuilder.build_content; content_alignment is CONTENT_ALIGNMENT
GroupBBuildContent(values, content_alignment) ==
    LET t == StartTable("content", 1 + Len(values), 2, GROUP_B_TABLE_WIDTH, 4, 18, COLOR_WHITE)
        header == <<OpMerge(0, 0, 1),
                    OpWidth(0, 0, GROUP_B_TABLE_WIDTH),
                    OpWrite(0, 0, "SECTION_TITLE", "center", COLOR_LABEL_BG,
                            "center", 276)>>
        rowOps(i) ==
            <<OpWidth(i + 1, 0, GROUP_B_COL0_WIDTH),
              OpWidth(i + 1, 1, GROUP_B_COL1_WIDTH),
              OpWrite(i + 1, 0, "label", "center", COLOR_LABEL_BG, "center", 276),
              OpWrite(i + 1, 1, values[i + 1],
                      IF i = 0 THEN "center" ELSE content_alignment, "", "center", 360)>>
    IN RunOps(t, header \o Flatten([k \in 1..Len(values) |-> rowOps(k - 1)]))

\* TestBuilder._build_test_info_table; info = <<description, instructions>>
BuildTestInfoTable(info) ==
    LET t == StartTable("test_info", 3, 2, TEST_INFO_TABLE_WIDTH, 4, 4, COLOR_BLACK)
        header == <<OpMerge(0, 0, 1),
                    OpWidth(0, 0, TEST_INFO_TABLE_WIDTH),
                    OpWrite(0, 0, "test info", "center", COLOR_LABEL_BG, "center", 276)>>
        rowOps(i) ==
            <<OpWidth(i + 1, 0, TEST_INFO_COL0_WIDTH),
              OpWidth(i + 1, 1, TEST_INFO_COL1_WIDTH),
              OpWrite(i + 1, 0, "label", "right", COLOR_LABEL_BG, "center", 276),
              OpSpacing(i + 1, 0, 240, 240),
              OpWrite(i + 1, 1, info[i + 1], "right", "", "center", 360),
              OpSpacing(i + 1, 1, 240, 240)>>
    IN RunOps(t, header \o Flatten([k \in 1..2 |-> rowOps(k - 1)]))

\* TestBuilder._build_questions_table; a question is <<text, choices,
\* answer, image>>.  num_rows = 1 + max(len(questions), 1), so the branch
\* that appends a row is never taken.
BuildQuestionsTable(qs) ==
    LET num_rows == 1 + Max(Len(qs), 1)
        t0 == StartTable("questions", num_rows, 4, TEST_Q_TABLE_WIDTH, 4, 4, COLOR_BLACK)
        t == SetTableIndent(t0, -714)
        header == Flatten([c \in 1..4 |->
                    <<OpWidth(0, c - 1, TEST_Q_COL_WIDTHS[c]),
                      OpWrite(0, c - 1, "header", "center", COLOR_LABEL_BG, "center", 276)>>])
        rowOps(q) ==
            Flatten([c \in 1..4 |->
                    <<OpWidth(q, c - 1, TEST_Q_COL_WIDTHS[c]),
                      OpWrite(q, c - 1, qs[q][c], "right", "", "", 360),
                      OpSpacing(q, c - 1, 240, 240)>>])
    IN RunOps(t, header \o Flatten([q \in 1..Len(qs) |-> rowOps(q)]))

\* ActivityBuilder._build_scene_table; a scene is the tuple of its ten texts
\* <<title, description, elements, image_desc, motion_desc, sound_effects,
\*   on_screen_text, steps, correct_answer, buttons>>
ActivityBuildSceneTable(scene) ==
    LET t == StartTable("scene", 10, 2, ACTIVITY_TABLE_WIDTH, 12, 18, COLOR_WHITE)
        header == <<OpMerge(0, 0, 1),
                    OpWidth(0, 0, ACTIVITY_TABLE_WIDTH),
                    OpWrite(0, 0, scene[1], "center", COLOR_LABEL_BG, "center", 276),
                    OpWidth(1, 0, ACTIVITY_COL0_WIDTH),
                    OpWidth(1, 1, ACTIVITY_COL1_WIDTH),
                    OpWrite(1, 0, "label", "center", COLOR_LABEL_BG, "center", 276),
                    OpWrite(1, 1, "label", "center", COLOR_LABEL_BG, "center", 276)>>
        rowOps(i) ==
            <<OpWidth(i + 2, 0, ACTIVITY_COL0_WIDTH),
              OpWidth(i + 2, 1, ACTIVITY_COL1_WIDTH),
              OpWrite(i + 2, 0, IF i = 0 THEN scene[2] ELSE "label", "right",
                      IF i >= 5 THEN COLOR_WHITE ELSE "", "", 276),
              OpWrite(i + 2, 1, scene[i + 3], "right", "", "", 360)>>
    IN RunOps(t, header \o Flatten([k \in 1..8 |-> rowOps(k - 1)]))

\* VideoBuilder._build_scene_table; a scene is <<title, screen_description,
\* sound_effects, segments>>, a segment <<narration, on_screen_text,
\* scene_description, image_links>>
VideoBuildSceneTable(scene) ==
    LET segments == scene[4]
        num_data_rows == Max(Len(segments), 3)
        num_rows == 4 + num_data_rows
        t == StartTable("scene", num_rows, 4, VIDEO_TABLE_WIDTH, 8, 8, COLOR_BLACK)
        fixed == <<OpMerge(0, 0, 3),
                   OpWidth(0, 0, VIDEO_TABLE_WIDTH),
                   OpWrite(0, 0, scene[1], "center", COLOR_VIDEO_SCENE, "center", 276),
                   OpWidth(1, 0, VIDEO_COL_WIDTHS[1]),
                   OpWrite(1, 0, "label", "center", "", "center", 276),
                   OpMerge(1, 1, 3),
                   OpWrite(1, 1, scene[2], "right", "", "center", 276),
                   OpWidth(2, 0, VIDEO_COL_WIDTHS[1]),
                   OpWrite(2, 0, "label", "center", "", "center", 276),
                   OpMerge(2, 1, 3),
                   OpWrite(2, 1, scene[3], "right", "", "center", 276)>>
        subHeaders == Flatten([c \in 1..4 |->
                        <<OpWidth(3, c - 1, VIDEO_COL_WIDTHS[c]),
                          OpWrite(3, c - 1, "header", "center", COLOR_LABEL_BG,
                                  "center", 276)>>])
        segOps(k) ==
            IF 4 + (k - 1) >= num_rows THEN <<>>
            ELSE Flatten([c \in 1..4 |->
                    <<OpWidth(3 + k, c - 1, VIDEO_COL_WIDTHS[c]),
                      OpWrite(3 + k, c - 1, segments[k][c], "right", "", "", 360)>>])
    IN RunOps(t, fixed \o subHeaders \o Flatten([k \in 1..Len(segments) |-> segOps(k)]))

----------------------------------------------------------------------------
(* Allocator calls *)

\* Bounds of the allocator inputs
MaxItems == 60
MaxGridSpan == 6

\* Spans <<top, bottom>>: the four regions the slide methods pass
\* (objectives rows, drag-drop items, click-reveal list, dropdown rows)
\* and a grid of short spans (multiples of 50000 EMU starting at 0).
CallerSpans == { <<2315612, 6300000>>, <<Cm(850), 6300000>>,
                 <<Cm(650), 6300000>>, <<Cm(700), 6300000>> }
GridSpans == { <<0, k * 50000>> : k \in 0..MaxGridSpan }
Spans == CallerSpans \cup GridSpans

\* Preferred item heights: the callers' values and small ones.
PreferredHeights == { 600002, Cm(200), Cm(180), 50000, 100000, 1 }

\* No allocator call in progress
AllocatorIdle ==
    /\ item_count = 0 /\ available_top = 0 /\ available_bottom = 0
    /\ min_item_height = 0 /\ item_height = 0 /\ gap = 0 /\ apc = "idle"

\* section.header before _build_header: no table, no picture
NoHeader == [table |-> FALSE, pictures |-> <<>>]

\* Paths as tuples of their components; the working directory is <<>>
InitialDirs == {<<>>, <<"output">>}

\* No DocxBuilder constructed
BuilderIdle ==
    /\ kind = "" /\ project_code = "" /\ unit_number = 0
    /\ element_code = "" /\ element_name = ""
    /\ content = <<>> /\ test_info = <<"", "">>
    /\ questions = <<>> /\ scenes = <<>> /\ built = FALSE
    /\ logo_left = "" /\ logo_right = "" /\ page_header = NoHeader /\ page_footer = <<>>
    /\ exception = "" /\ dirs = InitialDirs /\ files = {}

NoCall == [f |-> "", r |-> 0, c |-> 0, c2 |-> 0, raised |-> FALSE, before |-> <<>>]

\* No helper called directly
HelpersIdle == lastCall = NoCall /\ diagnostics = <<>> /\ ncalls = 0 /\ shdElems = <<>>

\* No LectureBuilder constructed
NoPresentation == [sldIdLst |-> <<>>, sldMasterIdLst |-> <<>>, rels |-> {}, parts |-> <<>>, layouts |-> 0]

\* No add_* call made yet; otherwise the arguments of the add_* call made last, as far as the methods look
\* at them: the length of the item list, and the image and body arguments
\* of add_content_slide
NoArgs == [items |-> 0, image_path |-> "", image_prompt |-> "", image_placeholder |-> "", body |-> ""]

LectureIdle ==
    /\ prs = NoPresentation /\ pptx_files = {}
    /\ slide_count = 0 /\ content_layout_cycle = 0
    /\ calls = <<>> /\ last_args = NoArgs

\* No pair of builders exists.
PairIdle == world = <<>> /\ alone = <<>>

InitAllocator ==
    /\ BuilderIdle /\ doc = <<>> /\ HelpersIdle /\ LectureIdle /\ PairIdle
    /\ item_count \in 0..MaxItems
    /\ \E s \in Spans : available_top = s[1] /\ available_bottom = s[2]
    /\ min_item_height \in PreferredHeights
    /\ item_height = 0
    /\ gap = 0
    /\ apc = "call"

\* The call runs to completion and returns its pair.
RunAllocator ==
    /\ apc = "call"
    /\ LET r == CalculateAdaptiveSpacing(item_count, available_top,
                                         available_bottom, min_item_height)
       IN /\ item_height' = r[1]
          /\ gap' = r[2]
    /\ apc' = "returned"
    /\ UNCHANGED <<item_count, available_top, available_bottom, min_item_height>>
    /\ UNCHANGED <<pairVars, lectureVars, builderVars, doc, helperVars>>

\* The next list-like region is laid out: new arguments, a fresh call.
NextRegion ==
    /\ apc = "returned"
    /\ item_count' \in 0..MaxItems
    /\ \E s \in Spans : available_top' = s[1] /\ available_bottom' = s[2]
    /\ min_item_height' \in PreferredHeights
    /\ item_height' = 0
    /\ gap' = 0
    /\ apc' = "call"
    /\ UNCHANGED <<pairVars, lectureVars, builderVars, doc, helperVars>>

NextAllocator == RunAllocator \/ NextRegion

SpecAllocator == InitAllocator /\ [][NextAllocator]_vars

----------------------------------------------------------------------------
(* One DocxBuilder: construction, setters, add_*, build *)

\* Bounds of the builder inputs
MaxQuestions == 2
MaxScenes == 1
MaxSegments == 4

ProjectCodes == {"DSAI"}
UnitNumbers == {1, 12}
Codes == {"DSAI_U01_MLO", "DSAI_U01_Pre_Test"}
Texts == {"", "text"}

SampleQuestions == { <<"question", "a / b / c", "a", "">>,
                     <<"question 2", "c / d", "d", "image">> }

\* ActivityBuilder.add_scene with its defaults, and with every text given
SampleActivityScenes ==
    { <<"scene", "", "", "-", "-", "-", "", "", "", "buttons">>,
      <<"scene", "d", "e", "i", "m", "s", "o", "st", "c", "b">> }

\* narration_segments of VideoBuilder.add_scene: k segments
Segments(k) == [i \in 1..k |-> <<"narration", "on screen", "description", "links">>]

\* What a logo path names: "" for None, a path that does not exist, a file
\* that exists but is not a readable image, a readable image
LogoStates == {"", "missing", "unreadable", "ok"}
LogoPairs == { <<"", "">>, <<"ok", "ok">>, <<"missing", "ok">>,
               <<"unreadable", "ok">>, <<"ok", "unreadable">>, <<"", "missing">> }

\* os.path.exists(path)
PathExists(file) == file \in {"unreadable", "ok"}

\* DocxBuilder._build_header: the header table and, for each logo whose
\* file exists, run.add_picture, which raises on a file it cannot read
BuildHeader(left, right) ==
    IF left = "" /\ right = "" THEN [table |-> FALSE, pictures |-> <<>>, raised |-> ""]
    ELSE IF left # "" /\ PathExists(left) /\ left # "ok"
    THEN [table |-> TRUE, pictures |-> <<>>, raised |-> "UnrecognizedImageError"]
    ELSE LET first == IF left # "" /\ PathExists(left) THEN <<"logo_left">> ELSE <<>>
         IN IF right # "" /\ PathExists(right) /\ right # "ok"
            THEN [table |-> TRUE, pictures |-> first, raised |-> "UnrecognizedImageError"]
            ELSE [table |-> TRUE,
                  pictures |-> first \o (IF right # "" /\ PathExists(right)
                                         THEN <<"logo_right">> ELSE <<>>),
                  raised |-> ""]

FONT_FOOTER == "Tahoma"

\* A run as the engine leaves it: text, w:rFonts ascii/hAnsi font, w:rFonts
\* cs font ("" when not set), w:rtl flag
Run(text, font, cs, rtl) == [text |-> text, font |-> font, cs |-> cs, rtl |-> rtl]

\* DocxBuilder._add_footer: "Page ", the PAGE field, " of ", the NUMPAGES
\* field; only the first run gets its w:cs font set, none gets w:rtl
AddFooter ==
    << Run("Page ", FONT_FOOTER, FONT_FOOTER, FALSE),
       Run("fldChar begin", FONT_FOOTER, "", FALSE),
       Run("instrText PAGE", "", "", FALSE),
       Run("fldChar end", "", "", FALSE),
       Run(" of ", FONT_FOOTER, "", FALSE),
       Run("fldChar begin", FONT_FOOTER, "", FALSE),
       Run("instrText NUMPAGES", "", "", FALSE),
       Run("fldChar end", "", "", FALSE) >>

\* Bound of the number of files one run writes
MaxSaves == 1

\* Caller-supplied output paths: nested directories that do not exist, an
\* existing directory, a bare file name
SavePaths == { <<"output", "DSAI", "U01", "x.docx">>, <<"output", "x.docx">>,
               <<"x.docx">> }

\* os.path.dirname(path)
Dirname(path) == SubSeq(path, 1, Len(path) - 1)

\* os.makedirs(name, exist_ok=True): every missing directory on the way is
\* created; the empty name raises FileNotFoundError
MakeDirs(existing, name) ==
    IF name = <<>> THEN [dirs |-> existing, raised |-> "FileNotFoundError"]
    ELSE [dirs |-> existing \cup {SubSeq(name, 1, k) : k \in 1..Len(name)},
          raised |-> ""]

InitBuilder ==
    /\ AllocatorIdle /\ HelpersIdle /\ LectureIdle /\ PairIdle
    /\ kind \in Kinds
    /\ project_code \in ProjectCodes
    /\ unit_number \in UnitNumbers
    /\ element_code = ""
    /\ element_name = ""
    \* _GroupABuilder: [""] * 4; _GroupBBuilder: {} -- a dict whose lookups
    \* default to "", kept as the values under the four row labels and, in
    \* fifth place, under any other key
    /\ content = IF kind \in GroupAKinds THEN <<"", "", "", "">>
                 ELSE IF kind \in GroupBKinds THEN <<"", "", "", "", "">>
                 ELSE <<>>
    /\ test_info = <<"", "">>
    /\ questions = <<>>
    /\ scenes = <<>>
    /\ doc = <<>>
    /\ built = FALSE
    /\ \E lp \in LogoPairs : logo_left = lp[1] /\ logo_right = lp[2]
    /\ page_header = NoHeader
    /\ page_footer = <<>>
    /\ exception = ""
    /\ dirs = InitialDirs
    /\ files = {}

\* DocxBuilder.set_element_code
SetElementCode ==
    /\ kind # "" /\ ~built /\ exception = ""
    /\ \E code \in Codes : element_code' = code
    /\ UNCHANGED <<pairVars, allocVars, lectureVars, helperVars, kind, project_code, unit_number, element_name, content, test_info, questions, scenes, doc, built, logo_left, logo_right, page_header, page_footer, exception, dirs, files>>

\* DocxBuilder.set_element_name
SetElementName ==
    /\ kind # "" /\ ~built /\ exception = ""
    /\ \E name \in Texts : element_name' = name
    /\ UNCHANGED <<pairVars, allocVars, lectureVars, helperVars, kind, project_code, unit_number, element_code, content, test_info, questions, scenes, doc, built, logo_left, logo_right, page_header, page_footer, exception, dirs, files>>

\* _GroupABuilder.set_screen_description / set_content_text /
\* set_image_sources / set_detailed_description (rows 1..4), and the same
\* four setters of _GroupBBuilder
SetContentRow ==
    /\ kind \in GroupAKinds \cup GroupBKinds /\ ~built /\ exception = ""
    /\ \E i \in 1..4, value \in Texts : content' = [content EXCEPT ![i] = value]
    /\ UNCHANGED <<pairVars, allocVars, lectureVars, helperVars, kind, project_code, unit_number, element_code, element_name, test_info, questions, scenes, doc, built, logo_left, logo_right, page_header, page_footer, exception, dirs, files>>

\* _GroupBBuilder.set_content(label_key, value): any key, a row label or not
SetContent ==
    /\ kind \in GroupBKinds /\ ~built /\ exception = ""
    /\ \E key \in 1..5, value \in Texts : content' = [content EXCEPT ![key] = value]
    /\ UNCHANGED <<pairVars, allocVars, lectureVars, helperVars, kind, project_code, unit_number, element_code, element_name, test_info, questions, scenes, doc, built, logo_left, logo_right, page_header, page_footer, exception, dirs, files>>

\* TestBuilder.set_test_info
SetTestInfo ==
    /\ kind = "Test" /\ ~built /\ exception = ""
    /\ \E description \in Texts, instructions \in Texts :
            test_info' = <<description, instructions>>
    /\ UNCHANGED <<pairVars, allocVars, lectureVars, helperVars, kind, project_code, unit_number, element_code, element_name, content, questions, scenes, doc, built, logo_left, logo_right, page_header, page_footer, exception, dirs, files>>

\* TestBuilder.add_question
AddQuestion ==
    /\ kind = "Test" /\ ~built /\ exception = ""
    /\ Len(questions) < MaxQuestions
    /\ \E q \in SampleQuestions : questions' = Append(questions, q)
    /\ UNCHANGED <<pairVars, allocVars, lectureVars, helperVars, kind, project_code, unit_number, element_code, element_name, content, test_info, scenes, doc, built, logo_left, logo_right, page_header, page_footer, exception, dirs, files>>

\* ActivityBuilder.add_scene
ActivityAddScene ==
    /\ kind = "Activity" /\ ~built /\ exception = ""
    /\ Len(scenes) < MaxScenes
    /\ \E sc \in SampleActivityScenes : scenes' = Append(scenes, sc)
    /\ UNCHANGED <<pairVars, allocVars, lectureVars, helperVars, kind, project_code, unit_number, element_code, element_name, content, test_info, questions, doc, built, logo_left, logo_right, page_header, page_footer, exception, dirs, files>>

\* VideoBuilder.add_scene: narration_segments None gives one empty segment
VideoAddScene ==
    /\ kind = "Video" /\ ~built /\ exception = ""
    /\ Len(scenes) < MaxScenes
    /\ \E description \in Texts :
          \/ scenes' = Append(scenes, <<"scene", description, "",
                                        << <<"", "", "", "">> >> >>)
          \/ \E k \in 0..MaxSegments :
                scenes' = Append(scenes, <<"scene", description, "", Segments(k)>>)
    /\ UNCHANGED <<pairVars, allocVars, lectureVars, helperVars, kind, project_code, unit_number, element_code, element_name, content, test_info, questions, doc, built, logo_left, logo_right, page_header, page_footer, exception, dirs, files>>

\* Mutant: the scene loop leaves out the last scene
RECURSIVE SceneItems_DropsLast(_, _)
SceneItems_DropsLast(k, ss) ==
    IF Len(ss) <= 1 THEN <<>>
    ELSE << (IF k = "Activity" THEN ActivityBuildSceneTable(Head(ss))
             ELSE VideoBuildSceneTable(Head(ss))),
            BodyParagraph >> \o SceneItems_DropsLast(k, Tail(ss))

\* build_content of the class of the builder: the body items it appends
RECURSIVE SceneItems(_, _)
SceneItems(k, ss) ==
    IF ss = <<>> THEN <<>>
    ELSE << (IF k = "Activity" THEN ActivityBuildSceneTable(Head(ss))
             ELSE VideoBuildSceneTable(Head(ss))),
            BodyParagraph >> \o SceneItems(k, Tail(ss))

BuildContent(k, values, info, qs, ss) ==
    CASE k \in GroupAKinds -> <<GroupABuildContent(values)>>
      [] k \in GroupBKinds ->
            <<GroupBBuildContent(SubSeq(values, 1, 4),
                                 IF k = "Discussion" THEN "justify" ELSE "right")>>
      [] k = "Test" -> <<BuildTestInfoTable(info), BodyParagraph, BuildQuestionsTable(qs)>>
      [] k \in {"Activity", "Video"} -> SceneItems(k, ss)

\* DocxBuilder.build: header, metadata table, blank paragraph, content
\* tables, footer.  create_metadata_table stores the auto-generated element
\* code; VideoBuilder's override does not generate one.  An exception of
\* _build_header escapes before anything else is built.
Build ==
    /\ kind # "" /\ ~built /\ exception = ""
    /\ LET h == BuildHeader(logo_left, logo_right)
           code == IF kind # "Video" /\ element_code = ""
                   THEN AutoElementCode(project_code, unit_number)
                   ELSE element_code
           meta == IF kind = "Video"
                   THEN VideoCreateMetadataTable(code, element_name)
                   ELSE CreateMetadataTable(code, element_name)
       IN /\ page_header' = [table |-> h.table, pictures |-> h.pictures]
          /\ IF h.raised # ""
             THEN /\ exception' = h.raised
                  /\ UNCHANGED <<element_code, doc, page_footer, built>>
             ELSE /\ element_code' = code
                  /\ doc' = doc \o <<meta, BodyParagraph>>
                                \o BuildContent(kind, content, test_info, questions, scenes)
                  /\ page_footer' = AddFooter
                  /\ built' = TRUE
                  /\ UNCHANGED exception
    /\ UNCHANGED <<pairVars, allocVars, lectureVars, helperVars, kind, project_code, unit_number, element_name, content, test_info, questions, scenes, logo_left, logo_right, dirs, files>>

\* DocxBuilder.save(output_path): os.makedirs(os.path.dirname(output_path),
\* exist_ok=True), then self.doc.save(output_path)
Save ==
    /\ kind # "" /\ exception = ""
    /\ Cardinality(files) < MaxSaves
    /\ \E output_path \in SavePaths :
          /\ \A f \in files : f.path # output_path
          /\ LET made == MakeDirs(dirs, Dirname(output_path))
             IN IF made.raised # ""
                THEN /\ exception' = made.raised
                     /\ UNCHANGED <<dirs, files>>
                ELSE /\ dirs' = made.dirs
                     /\ files' = files \cup {[path |-> output_path, body |-> doc,
                                              header |-> page_header,
                                              footer |-> page_footer]}
                     /\ UNCHANGED exception
    /\ UNCHANGED <<pairVars, allocVars, lectureVars, helperVars, kind, project_code, unit_number, element_code, element_name, content, test_info, questions, scenes, doc, built, logo_left, logo_right, page_header, page_footer>>

NextBuilder ==
    \/ SetElementCode \/ SetElementName \/ SetContentRow \/ SetContent
    \/ SetTestInfo \/ AddQuestion \/ ActivityAddScene \/ VideoAddScene
    \/ Build \/ Save

SpecBuilder == InitBuilder /\ [][NextBuilder]_vars

----------------------------------------------------------------------------
(* Helpers called directly on one table, as a caller of the module may *)

\* Bounds of the direct calls
HelperCols == 3
MaxCalls == 3

ShadeColors == {COLOR_LABEL_BG, COLOR_WHITE}
BorderEdges == { <<8, 8, 8, 8>>, <<12, 12, 8, 12>> }
BorderSizes == {4, 12}

\* The record of the call that ran last: its name, its cell arguments,
\* whether it raised, and the document it started from
CallRecord(f, c, c2, raised) ==
    [f |-> f, r |-> 0, c |-> c, c2 |-> c2, raised |-> raised, before |-> doc]

\* A fresh one-row table from document.add_table
InitHelpers ==
    /\ AllocatorIdle /\ BuilderIdle /\ LectureIdle /\ PairIdle
    /\ doc = <<AddTable(1, HelperCols)>>
    /\ HelpersIdle

\* table.cell(0, col) of the table
CellOf(col) ==
    LET at == CellAt(doc[1], 0, col) IN doc[1].rows[at[1]][at[2]]

\* The document once a helper has rewritten table.cell(0, col) in place
WithCell(col, new) ==
    LET at == CellAt(doc[1], 0, col)
    IN <<[doc[1] EXCEPT !.rows[at[1]][at[2]] = new]>>

\* The w:tc object behind table.cell(0, col), named by the grid column it
\* starts at (a merge only removes the cells that follow the one it grows)
StartColOf(col) ==
    LET at == CellAt(doc[1], 0, col) IN SpanSum(doc[1].rows[at[1]], at[2] - 1)

\* Mutant: one w:shd element object is kept per colour and reused
NewShdElement_SharedPerColor(objs, color_hex) ==
    IF \E i \in 1..Len(objs) : objs[i].fill = color_hex
    THEN CHOOSE i \in 1..Len(objs) :
            objs[i].fill = color_hex /\ \A j \in 1..(i - 1) : objs[j].fill # color_hex
    ELSE Len(objs) + 1

\* parse_xml('<w:shd .../>') in docx_set_cell_shading: the element object
\* the call appends, always a newly created one
NewShdElement(objs, color_hex) == Len(objs) + 1

\* lxml append(element): the element becomes a child of the new parent and
\* leaves the parent it had
LxmlAppend(objs, i, color_hex, parent) ==
    IF i > Len(objs) THEN Append(objs, [fill |-> color_hex, parent |-> parent])
    ELSE [objs EXCEPT ![i].parent = parent]

\* _merge_cells_in_row(table, 0, start_col, end_col): the exception of
\* table.cell or of the merge propagates, nothing is caught or logged
CallMergeCellsInRow ==
    /\ kind = "" /\ ncalls < MaxCalls
    /\ \E start_col \in 0..HelperCols, end_col \in 0..HelperCols :
          /\ start_col <= end_col
          /\ IF MergeRaises(doc[1], 0, start_col, end_col)
             THEN /\ doc' = doc
                  /\ lastCall' = CallRecord("merge", start_col, end_col, TRUE)
             ELSE /\ doc' = <<MergeCellsInRow(doc[1], 0, start_col, end_col)>>
                  /\ lastCall' = CallRecord("merge", start_col, end_col, FALSE)
    /\ ncalls' = ncalls + 1
    /\ UNCHANGED <<pairVars, allocVars, lectureVars, builderVars, diagnostics, shdElems>>

\* _set_cell_width(table.cell(0, col), width)
CallSetCellWidth ==
    /\ kind = "" /\ ncalls < MaxCalls
    /\ \E col \in 0..(HelperCols - 1) :
          /\ doc' = WithCell(col, SetCellWidth(CellOf(col), META_COL0_WIDTH))
          /\ lastCall' = CallRecord("width", col, col, FALSE)
    /\ ncalls' = ncalls + 1
    /\ UNCHANGED <<pairVars, allocVars, lectureVars, builderVars, diagnostics, shdElems>>

\* docx_set_cell_shading(table.cell(0, col), color_hex)
CallDocxSetCellShading ==
    /\ kind = "" /\ ncalls < MaxCalls
    /\ \E col \in 0..(HelperCols - 1), color_hex \in ShadeColors :
          /\ doc' = WithCell(col, DocxSetCellShading(CellOf(col), color_hex))
          /\ shdElems' = LxmlAppend(shdElems, NewShdElement(shdElems, color_hex),
                                    color_hex, StartColOf(col))
          /\ lastCall' = CallRecord("shading", col, col, FALSE)
    /\ ncalls' = ncalls + 1
    /\ UNCHANGED <<pairVars, allocVars, lectureVars, builderVars, diagnostics>>

\* docx_set_cell_borders(table.cell(0, col), top=, left=, bottom=, right=)
CallDocxSetCellBorders ==
    /\ kind = "" /\ ncalls < MaxCalls
    /\ \E col \in 0..(HelperCols - 1), edges \in BorderEdges :
          /\ doc' = WithCell(col, DocxSetCellBorders(CellOf(col), edges))
          /\ lastCall' = CallRecord("borders", col, col, FALSE)
    /\ ncalls' = ncalls + 1
    /\ UNCHANGED <<pairVars, allocVars, lectureVars, builderVars, diagnostics, shdElems>>

\* _set_table_borders(table, outer_sz=sz)
CallSetTableBorders ==
    /\ kind = "" /\ ncalls < MaxCalls
    /\ \E sz \in BorderSizes :
          /\ doc' = <<SetTableBorders(doc[1], sz, 4, COLOR_BLACK, COLOR_BLACK)>>
          /\ lastCall' = CallRecord("table_borders", 0, 0, FALSE)
    /\ ncalls' = ncalls + 1
    /\ UNCHANGED <<pairVars, allocVars, lectureVars, builderVars, diagnostics, shdElems>>

NextHelpers ==
    \/ CallMergeCellsInRow \/ CallSetCellWidth \/ CallDocxSetCellShading
    \/ CallDocxSetCellBorders \/ CallSetTableBorders

SpecHelpers == InitHelpers /\ [][NextHelpers]_vars

----------------------------------------------------------------------------
(* LectureBuilder: the slide list of self.prs (engine/pptx_engine.py)       *)
(* python-pptx keeps the slides of a presentation in three places: the     *)
(* p:sldIdLst of presentation.xml (slide id and r:id), the relationships   *)
(* of the presentation part (r:id -> slide part) and the slide parts.      *)
(* r:ids are kept as the number n of "rIdn", part names as the number n of *)
(* "/ppt/slides/sliden.xml", slide parts as their position in prs.parts.   *)

MaxExamples == 2
MaxSlides == 3

Shape(name) == [name |-> name, target_slide |-> 0]

\* The named shapes the add_* methods put on their slide
TitleShapes == <<Shape("txt_institution"), Shape("btn_start")>>
ObjectivesShapes == <<Shape("txt_obj_intro")>>
QuizShapes == <<Shape("btn_check")>>

\* Presentation(tpl_path): a template with n example slides and nl layouts
Template(n, nl) ==
    [sldIdLst |-> [i \in 1..n |-> [id |-> 255 + i, rId |-> 1 + i]],
     sldMasterIdLst |-> <<1>>,
     rels |-> {[rId |-> 1, reltype |-> "slideMaster", target |-> 0]} \cup
              {[rId |-> 1 + i, reltype |-> "slide", target |-> i] : i \in 1..n},
     parts |-> [i \in 1..n |-> [partname |-> i, example |-> TRUE, layout |-> 1,
                                shapes |-> ObjectivesShapes]],
     layouts |-> nl]

\* Presentation(): the default template of python-pptx, no slide, 11 layouts
BlankPresentation == Template(0, 11)

\* Part._rel_ref_count: the number of r:id attributes of the part's XML
\* that hold rId
RelRefCount(p, rId) ==
    Cardinality({i \in 1..Len(p.sldIdLst) : p.sldIdLst[i].rId = rId}) +
    Cardinality({i \in 1..Len(p.sldMasterIdLst) : p.sldMasterIdLst[i] = rId})

\* Mutant: drop_rel removes only a relationship nothing refers to any more
DropRel_OnlyUnreferenced(p, rId) ==
    IF RelRefCount(p, rId) < 1
    THEN [p EXCEPT !.rels = {r \in @ : r.rId # rId}]
    ELSE p

\* Part.drop_rel: the relationship goes unless it is referred to twice
DropRel(p, rId) ==
    IF RelRefCount(p, rId) < 2
    THEN [p EXCEPT !.rels = {r \in @ : r.rId # rId}]
    ELSE p

\* Mutant: the loop of __init__ stops with one example slide left
RECURSIVE DeleteExampleSlides_KeepsLast(_)
DeleteExampleSlides_KeepsLast(p) ==
    IF Len(p.sldIdLst) > 1
    THEN LET dropped == DropRel(p, p.sldIdLst[1].rId)
         IN DeleteExampleSlides_KeepsLast([dropped EXCEPT !.sldIdLst = Tail(@)])
    ELSE p

\* The while loop of __init__: for the first sldId, drop its relationship and
\* remove it from the list, until the list is empty
RECURSIVE DeleteExampleSlides(_)
DeleteExampleSlides(p) ==
    IF Len(p.sldIdLst) > 0
    THEN LET dropped == DropRel(p, p.sldIdLst[1].rId)
         IN DeleteExampleSlides([dropped EXCEPT !.sldIdLst = Tail(@)])
    ELSE p

\* _Relationships._next_rId: the lowest number not in use
NextRId(p) ==
    LET used == {r.rId : r \in p.rels}
    IN CHOOSE n \in 1..(Cardinality(p.rels) + 1) :
          n \notin used /\ \A m \in 1..(n - 1) : m \in used

\* CT_SlideIdList._next_id: one more than the highest id, 256 at least
NextSldId(p) ==
    LET ids == {255} \cup {p.sldIdLst[i].id : i \in 1..Len(p.sldIdLst)}
    IN (CHOOSE m \in ids : \A x \in ids : x <= m) + 1

\* _add_slide_with_layout and Slides.add_slide: layout 0 when layout_index
\* is out of range; a new part named after the length of the list, a new
\* relationship to it, a new sldId at the end of the list
AddSlideWithLayout(p, layout_index, shapes) ==
    LET layout == IF layout_index < p.layouts THEN layout_index ELSE 0
        part == [partname |-> Len(p.sldIdLst) + 1, example |-> FALSE,
                 layout |-> layout, shapes |-> shapes]
        rId == NextRId(p)
    IN [p EXCEPT !.parts = Append(@, part),
                 !.rels = @ \cup {[rId |-> rId, reltype |-> "slide",
                                   target |-> Len(p.parts) + 1]},
                 !.sldIdLst = Append(@, [id |-> NextSldId(p), rId |-> rId])]

\* prs.slides[i - 1]: the part the relationship of the i-th sldId leads to,
\* 0 when there is no such relationship
SlideAt(p, i) ==
    LET found == {r \in p.rels : r.rId = p.sldIdLst[i].rId /\ r.reltype = "slide"}
    IN IF found = {} THEN 0 ELSE (CHOOSE r \in found : TRUE).target

\* The position of the first shape of that name on a slide part, 0 if none
FirstShapeNamed(part, name) ==
    LET at == {k \in 1..Len(part.shapes) : part.shapes[k].name = name}
    IN IF at = {} THEN 0 ELSE CHOOSE k \in at : \A j \in at : k <= j

\* finalize: with more than one slide, the first btn_start shape of
\* slides[0] gets slides[1] as the target of its click action
Finalize(p) ==
    IF Len(p.sldIdLst) > 1
    THEN LET first == SlideAt(p, 1)
             k == FirstShapeNamed(p.parts[first], "btn_start")
         IN IF k = 0 THEN p
            ELSE [p EXCEPT !.parts[first].shapes[k].target_slide = SlideAt(p, 2)]
    ELSE p

\* ---- the calls made on a LectureBuilder ----

ListArgs(n) == [NoArgs EXCEPT !.items = n]

\* The fields of one DocxBuilder, which no LectureBuilder call touches
docxFields == <<kind, project_code, unit_number, element_code, element_name, content, test_info, questions, scenes, built, logo_left, logo_right, page_header, page_footer, dirs, files>>

\* The call is on record: its method and its arguments
Called(method, args) == calls' = Append(calls, method) /\ last_args' = args

\* What no add_* method touches
AddLeaves == UNCHANGED <<pairVars, allocVars, docxFields, doc, helperVars, pptx_files>>

\* Lengths of the item lists passed to the list-like methods
ListLengths == {0, 1, 5}

\* The shapes f"{prefix}{i}" for the items 1..n of a list
ItemShapes(prefix, n) == [i \in 1..n |-> Shape(prefix \o ToString(i))]

\* LectureBuilder(...): the template is found, with its example slides, or
\* it is not and a blank presentation is used
InitLecture ==
    /\ AllocatorIdle /\ BuilderIdle /\ doc = <<>> /\ HelpersIdle /\ PairIdle
    /\ \/ \E n \in 0..MaxExamples, nl \in 1..2 : prs = DeleteExampleSlides(Template(n, nl))
       \/ prs = BlankPresentation
    /\ pptx_files = {}
    /\ slide_count = 0
    /\ content_layout_cycle = 0
    /\ calls = <<>> /\ last_args = NoArgs

\* add_title_slide
AddTitleSlide ==
    /\ exception = "" /\ Len(prs.sldIdLst) < MaxSlides
    /\ slide_count' = slide_count + 1
    /\ prs' = AddSlideWithLayout(prs, 0, TitleShapes)
    /\ Called("add_title_slide", NoArgs)
    /\ UNCHANGED <<content_layout_cycle, exception>> /\ AddLeaves

\* add_objectives_slide: one row per objective, none for an empty list
AddObjectivesSlide ==
    /\ exception = "" /\ Len(prs.sldIdLst) < MaxSlides
    /\ \E n \in ListLengths :
          /\ slide_count' = slide_count + 1
          /\ prs' = AddSlideWithLayout(prs, 1, ObjectivesShapes \o ItemShapes("bg_obj_", n))
          /\ Called("add_objectives_slide", ListArgs(n))
    /\ UNCHANGED <<content_layout_cycle, exception>> /\ AddLeaves

\* add_quiz_slide
AddQuizSlide ==
    /\ exception = "" /\ Len(prs.sldIdLst) < MaxSlides
    /\ slide_count' = slide_count + 1
    /\ prs' = AddSlideWithLayout(prs, 1, QuizShapes)
    /\ Called("add_quiz_slide", NoArgs)
    /\ UNCHANGED <<content_layout_cycle, exception>> /\ AddLeaves

\* finalize() called by the user
CallFinalize ==
    /\ exception = ""
    /\ prs' = Finalize(prs)
    /\ UNCHANGED <<pairVars, allocVars, builderVars, doc, helperVars, pptx_files, slide_count, content_layout_cycle, calls, last_args>>

\* LectureBuilder.save: finalize, create the output directory when the path
\* has one, write the presentation
SaveLecture ==
    /\ exception = ""
    /\ Cardinality(pptx_files) < MaxSaves
    /\ \E filepath \in SavePaths :
          /\ \A f \in pptx_files : f.path # filepath
          /\ LET output_dir == Dirname(filepath)
                 made == IF output_dir # <<>> THEN MakeDirs(dirs, output_dir)
                         ELSE [dirs |-> dirs, raised |-> ""]
             IN /\ prs' = Finalize(prs)
                /\ dirs' = made.dirs
                /\ pptx_files' = pptx_files \cup {[path |-> filepath, prs |-> Finalize(prs)]}
    /\ UNCHANGED <<pairVars, allocVars, helperVars, doc, kind, project_code, unit_number, element_code, element_name, content, test_info, questions, scenes, built, logo_left, logo_right, page_header, page_footer, exception, files, slide_count, content_layout_cycle, calls, last_args>>

NextLecture ==
    \/ AddTitleSlide \/ AddObjectivesSlide \/ AddQuizSlide
    \/ CallFinalize \/ SaveLecture

SpecLecture == InitLecture /\ [][NextLecture]_vars

\* ---- the list-like slide methods ----

\* add_drag_drop_slide: a draggable item and a drop zone per item
AddDragDropSlide ==
    /\ exception = "" /\ Len(prs.sldIdLst) < MaxSlides
    /\ \E n \in ListLengths :
          /\ slide_count' = slide_count + 1
          /\ prs' = AddSlideWithLayout(prs, 1,
                        <<Shape("txt_question"), Shape("txt_instruction")>>
                        \o ItemShapes("drag_item_", n) \o ItemShapes("drop_zone_", n))
          /\ Called("add_drag_drop_slide", ListArgs(n))
    /\ UNCHANGED <<content_layout_cycle, exception>> /\ AddLeaves

\* add_dropdown_slide: a statement and a dropdown indicator per item
AddDropdownSlide ==
    /\ exception = "" /\ Len(prs.sldIdLst) < MaxSlides
    /\ \E n \in ListLengths :
          /\ slide_count' = slide_count + 1
          /\ prs' = AddSlideWithLayout(prs, 1,
                        <<Shape("txt_instruction")>>
                        \o ItemShapes("txt_statement_", n) \o ItemShapes("btn_dropdown_", n))
          /\ Called("add_dropdown_slide", ListArgs(n))
    /\ UNCHANGED <<content_layout_cycle, exception>> /\ AddLeaves

\* add_click_reveal_slide: a vertical list for more than 4 items, else
\* horizontal tabs of width int((tab_area_width - total_gaps) / tab_count),
\* a division that raises for an empty list
AddClickRevealSlide ==
    /\ exception = "" /\ Len(prs.sldIdLst) < MaxSlides
    /\ \E n \in ListLengths :
          /\ slide_count' = slide_count + 1
          /\ prs' = AddSlideWithLayout(prs, 1,
                        <<Shape("txt_instruction")>> \o
                        (IF n > 4 THEN ItemShapes("bg_reveal_", n) \o ItemShapes("btn_reveal_", n)
                         ELSE ItemShapes("btn_reveal_", n)))
          /\ exception' = IF n <= 4 /\ n = 0 THEN "ZeroDivisionError" ELSE ""
          /\ Called("add_click_reveal_slide", ListArgs(n))
    /\ UNCHANGED content_layout_cycle /\ AddLeaves

\* add_content_with_cards: cards of width
\* int((cards_area_width - total_gaps) / card_count), a division that
\* raises for an empty list
AddContentWithCards ==
    /\ exception = "" /\ Len(prs.sldIdLst) < MaxSlides
    /\ \E n \in ListLengths :
          /\ slide_count' = slide_count + 1
          /\ prs' = AddSlideWithLayout(prs, 1,
                        <<Shape("header_banner")>> \o ItemShapes("card_", n))
          /\ exception' = IF n # 0 THEN "" ELSE "ZeroDivisionError"
          /\ Called("add_content_with_cards", ListArgs(n))
    /\ UNCHANGED content_layout_cycle /\ AddLeaves

\* A LectureBuilder on which the list-like methods are called
InitLists ==
    /\ AllocatorIdle /\ BuilderIdle /\ doc = <<>> /\ HelpersIdle /\ PairIdle
    /\ \/ prs = DeleteExampleSlides(Template(1, 2))
       \/ prs = BlankPresentation
    /\ pptx_files = {}
    /\ slide_count = 0
    /\ content_layout_cycle = 0
    /\ calls = <<>> /\ last_args = NoArgs

NextLists ==
    \/ AddObjectivesSlide \/ AddDragDropSlide \/ AddDropdownSlide
    \/ AddClickRevealSlide \/ AddContentWithCards

SpecLists == InitLists /\ [][NextLists]_vars

\* ---- add_content_slide ----

\* What the image arguments name: no argument, a file that exists, a path
\* with no file; no prompt, a prompt whose generation succeeds or fails
ImagePathStates == {"", "existing", "missing"}
ImagePromptStates == {"", "succeeds", "fails"}
Placeholders == {"", "label"}
BodyArgs == {"bullets", "paragraphs", ""}

\* A picture shape with the file it shows
Picture(name, file) == [name |-> name, target_slide |-> 0, image |-> file]

\* _generate_image_for_slide: the path of the generated file, "" (None)
\* without a prompt or when generation fails or raises
GenerateImageForSlide(image_prompt) ==
    IF image_prompt = "succeeds" THEN "generated" ELSE ""

\* os.path.exists(image_path)
ImageExists(path) == path \in {"existing", "generated"}

\* The image area of add_content_slide: generation is tried only when
\* there is a prompt and no image_path; then the picture of a file that
\* exists, else the gray placeholder when a label was given
ContentImageShapes(image_path, image_prompt, image_placeholder) ==
    LET path == IF image_prompt # "" /\ image_path = ""
                THEN GenerateImageForSlide(image_prompt)
                ELSE image_path
    IN IF path # "" /\ ImageExists(path) THEN <<Picture("img_content", path)>>
       ELSE IF image_placeholder # "" THEN <<Shape("Rounded Rectangle")>>
       ELSE <<>>

\* Mutant: a slide with an image does not advance the cycle
NextLayoutCycle_SkipsImages(cycle, has_image) == IF has_image THEN cycle ELSE cycle + 1

\* self._content_layout_cycle += 1
NextLayoutCycle(cycle, has_image) == cycle + 1

\* The content body: variant 0 with an image; the accent stripe of variant
\* 1; the numbered points of variant 2 when bullets are given, else the
\* card with the bullets or the paragraphs, if there are any
ContentBodyShapes(cycle, has_image, body) ==
    LET variant == IF has_image THEN 0 ELSE cycle % 3
        stripe == IF variant = 1 /\ ~has_image THEN <<Shape("bg_accent_stripe")>> ELSE <<>>
    IN IF variant = 2 /\ body = "bullets" /\ ~has_image
       THEN stripe \o <<Shape("num_point_1"), Shape("txt_point_1")>>
       ELSE IF body # "" THEN stripe \o <<Shape("bg_content_card"), Shape("txt_body")>>
       ELSE stripe

\* add_content_slide
AddContentSlide ==
    /\ exception = "" /\ Len(prs.sldIdLst) < MaxSlides
    /\ \E image_path \in ImagePathStates, image_prompt \in ImagePromptStates,
          image_placeholder \in Placeholders, body \in BodyArgs :
          LET image == ContentImageShapes(image_path, image_prompt, image_placeholder)
              has_image == image # <<>>
          IN /\ slide_count' = slide_count + 1
             /\ prs' = AddSlideWithLayout(prs, 1,
                          <<Shape("header_banner")>> \o image
                          \o ContentBodyShapes(content_layout_cycle, has_image, body))
             /\ content_layout_cycle' = NextLayoutCycle(content_layout_cycle, has_image)
             /\ Called("add_content_slide",
                       [items |-> 0, image_path |-> image_path, image_prompt |-> image_prompt,
                        image_placeholder |-> image_placeholder, body |-> body])
    /\ UNCHANGED exception /\ AddLeaves

\* A LectureBuilder on which content slides and other slides are added
InitContent ==
    /\ AllocatorIdle /\ BuilderIdle /\ doc = <<>> /\ HelpersIdle /\ PairIdle
    /\ \/ prs = DeleteExampleSlides(Template(1, 2))
       \/ prs = BlankPresentation
    /\ pptx_files = {}
    /\ slide_count = 0
    /\ content_layout_cycle = 0
    /\ calls = <<>> /\ last_args = NoArgs

NextContent == AddContentSlide \/ AddQuizSlide

SpecContent == InitContent /\ [][NextContent]_vars

----------------------------------------------------------------------------
(* Claims about the allocator (checked under SpecAllocator) *)

available == available_bottom - available_top
Consumed == item_height * item_count + gap * (item_count - 1)

\* The reference result of the written contract (section 4.1).
RefAllocate(n, s, e, m) ==
    LET a == e - s
    IN IF n = 0 THEN <<m, 0>>
       ELSE IF n * m + (n - 1) * min_gap <= a
            THEN <<m, (a - n * m) \div Max(n - 1, 1)>>
            ELSE <<(a - (n - 1) * min_gap) \div n, min_gap>>

\* C1: for every item_count >= 0, span and preferred height, the pair the
\* function returns is exactly the reference result: (min_item, 0) for no
\* items, (min_item, evenly distributed remainder) when the items fit, and
\* (shrunken item size, min_gap) otherwise.
C1_MatchesReference ==
    apc = "returned" =>
        <<item_height, gap>> = RefAllocate(item_count, available_top,
                                           available_bottom, min_item_height)

\* A returned call in which the fit test holds with equality.
C1_Witness ==
    /\ apc = "returned"
    /\ item_count >= 1
    /\ item_count * min_item_height + (item_count - 1) * min_gap = available
    /\ item_height = min_item_height

\* C2: whenever item_count * min_item exceeds the available span, the
\* returned sizes fill the span: items plus gaps differ from the available
\* span by less than item_count (integer rounding).
C2_ShrinkFillsSpan ==
    (apc = "returned" /\ item_count * min_item_height > available) =>
        /\ gap = min_gap
        /\ Consumed <= available
        /\ available - Consumed < item_count

\* The scenario of the objectives slide with 8 objectives.
C2_Witness ==
    /\ apc = "returned"
    /\ item_count = 8
    /\ available_top = 2315612 /\ available_bottom = 6300000
    /\ min_item_height = 600002
    /\ item_height = 435048 /\ gap = min_gap
    /\ Consumed = 3984384

\* C3: the returned item size is never negative.
C3_ItemSizeNonNegative ==
    apc = "returned" => item_height >= 0

\* C4: for item_count >= 1 the consumed span, items plus gaps, never
\* exceeds the input span by more than integer rounding (less than
\* item_count), in the fit branch and in the overflow branch.
C4_ConsumedWithinSpan ==
    (apc = "returned" /\ item_count >= 1) =>
        Consumed - available < item_count

\* A fit-branch result with several items whose remainder does not divide
\* evenly among the gaps.
C4_Witness ==
    /\ apc = "returned"
    /\ item_count >= 3
    /\ item_height = min_item_height
    /\ gap > min_gap
    /\ Consumed < available

\* C5 (as stated): a single item always gets gap = 0.
C5_SingleItemGapZero ==
    (apc = "returned" /\ item_count = 1) => gap = 0

\* C5 (amended): for a single item the gap is the whole remainder
\* available - min_item when the item fits and min_gap when it does not;
\* either way it adds nothing to the consumed span.
C5_SingleItemGap ==
    (apc = "returned" /\ item_count = 1) =>
        /\ gap = IF min_item_height <= available
                 THEN available - min_item_height
                 ELSE min_gap
        /\ Consumed = item_height

\* A single item that exactly fills its span.
C5_Witness ==
    /\ apc = "returned"
    /\ item_count = 1
    /\ min_item_height = available
    /\ gap = 0

----------------------------------------------------------------------------
(* Claims about the tables of a built document (checked under SpecBuilder)
   and about direct helper calls (checked under SpecHelpers) *)

\* The tables among the body items of the document
Tables == {doc[i] : i \in {k \in 1..Len(doc) : doc[k].kind # "p"}}

\* The children of a property container follow the schema's child order
InSchemaOrder(seq, tags) ==
    \A i \in 1..Len(seq), j \in 1..Len(seq) :
        i < j => PositionIn(tags, seq[i].tag) <= PositionIn(tags, seq[j].tag)

\* C6: once the builders have applied width, span, shading, vertical
\* alignment, margins and border overrides to a cell, the children of its
\* w:tcPr are in schema order (tcW, gridSpan, tcBorders, shd, tcMar, vAlign).
C6_TcPrInSchemaOrder ==
    \A t \in Tables : \A r \in 1..Len(t.rows) : \A c \in 1..Len(t.rows[r]) :
        InSchemaOrder(t.rows[r][c].tcPr, TcPrTagSeq)

\* The two column indexes of a merge call address one cell that already
\* spans them
AlreadyMerged(t, c, c2) ==
    /\ c < c2
    /\ CellInRange(t, 0, c) /\ CellInRange(t, 0, c2)
    /\ CellAt(t, 0, c) = CellAt(t, 0, c2)

\* C7: a merge call on a region of a row that is already merged reports an
\* error to its caller and leaves the table as it was before the call.
C7_SecondMergeReported ==
    (lastCall.f = "merge" /\ AlreadyMerged(lastCall.before[1], lastCall.c, lastCall.c2))
        => (lastCall.raised /\ doc = lastCall.before)

\* The sum of the column widths a 2-column table declares on its first
\* unmerged row
DeclaredColumnWidths(t) == WidthSum(t.rows[2], Len(t.rows[2]))

C9_RowWidthsSumToTableWidth ==
    \A t \in Tables : \A r \in 1..Len(t.rows) :
        WidthSum(t.rows[r], Len(t.rows[r])) = TableWidthOf(t)

\* The value of the last child with the tag (the one a reader that takes the
\* latest override would use)
LastOfTag(seq, tag) ==
    seq[CHOOSE i \in 1..Len(seq) :
            seq[i].tag = tag /\ \A j \in (i + 1)..Len(seq) : seq[j].tag # tag]

\* The property container the last call addressed, in a document
TargetOf(d) ==
    IF lastCall.f = "table_borders" THEN d[1].tblPr
    ELSE LET at == CellAt(d[1], 0, lastCall.c) IN d[1].rows[at[1]][at[2]].tcPr

OverrideTag ==
    CASE lastCall.f = "shading" -> "shd"
      [] lastCall.f = "borders" -> "tcBorders"
      [] OTHER -> "tblBorders"

\* C10: when a border or shading override follows an earlier one on the
\* same node with a different value, the node ends with one attribute, that
\* of the later call, and a diagnostic is produced.
C10_LastWriteWinsWithWarning ==
    (/\ lastCall.f \in {"shading", "borders", "table_borders"}
     /\ HasTag(TargetOf(lastCall.before), OverrideTag)
     /\ LastOfTag(TargetOf(lastCall.before), OverrideTag)
            # LastOfTag(TargetOf(doc), OverrideTag))
        => (/\ CountTag(TargetOf(doc), OverrideTag) = 1
            /\ diagnostics # <<>>)

\* ---- borders as a reader of the document resolves them ----

\* The table-level size for edge k (1 top, 2 left, 3 bottom, 4 right) of the
\* cell at position pos of row r: the outer size on the frame of the table,
\* the inner size between cells; w:bidiVisual lays the first cell rightmost
TableLevelSize(t, r, pos, k) ==
    LET b == t.tblPr[IndexOfTag(t.tblPr, "tblBorders")].e
        rtl == HasTag(t.tblPr, "bidiVisual")
        n == Len(t.rows[r])
        leftmost == IF rtl THEN pos = n ELSE pos = 1
        rightmost == IF rtl THEN pos = 1 ELSE pos = n
        outer == CASE k = 1 -> r = 1
                   [] k = 2 -> leftmost
                   [] k = 3 -> r = Len(t.rows)
                   [] k = 4 -> rightmost
    IN IF outer THEN b[1] ELSE b[2]

\* The sizes a reader may resolve for edge k of a cell: those of the cell's
\* own w:tcBorders children that give the edge, else the table-level size
\* (the engine writes no row-level border exception)
ResolvedSizes(t, r, pos, k) ==
    LET tcPr == t.rows[r][pos].tcPr
        own == {tcPr[i].e[k] : i \in {j \in 1..Len(tcPr) :
                                        tcPr[j].tag = "tcBorders" /\ tcPr[j].e[k] # 0}}
    IN IF own # {} THEN own ELSE {TableLevelSize(t, r, pos, k)}

\* The cell-level override the metadata table passes for the cells of row r
MetaCellOverride(r) ==
    IF r = 1 /\ kind # "Video" THEN <<12, 12, 8, 12>> ELSE <<8, 8, 8, 8>>

ShdObjectsOf(g) == {i \in 1..Len(shdElems) : shdElems[i].parent = g}

\* C12: after any sequence of shading calls every shaded cell owns its own
\* w:shd element objects, one per call made on it: no call on another cell
\* took one away.
C12_FreshShadingPerCell ==
    doc # <<>> /\ kind = "" =>
        \A pos \in 1..Len(doc[1].rows[1]) :
            CountTag(doc[1].rows[1][pos].tcPr, "shd")
                = Cardinality(ShdObjectsOf(SpanSum(doc[1].rows[1], pos - 1)))

\* Two distinct cells shaded with the same colour, each holding its element
C12_Witness ==
    /\ Len(shdElems) = 2
    /\ shdElems[1].fill = shdElems[2].fill
    /\ shdElems[1].parent # shdElems[2].parent
    /\ Len(doc[1].rows[1]) = HelperCols
    /\ \A i \in 1..2 :
          CountTag(doc[1].rows[1][shdElems[i].parent + 1].tcPr, "shd") = 1

\* What the logo path behind a header picture names
LogoOf(name) == IF name = "logo_left" THEN logo_left ELSE logo_right

\* C13: an image that is referenced but missing or unreadable adds no
\* picture and lets the operation complete: no exception of the image
\* escapes to the caller, and every picture present comes from a readable
\* image.
C13_UnusableImageOmitted ==
    /\ exception # "UnrecognizedImageError"
    /\ \A i \in 1..Len(page_header.pictures) : LogoOf(page_header.pictures[i]) = "ok"

\* C14: save(path) creates the missing parent directories and writes the
\* file for every caller-supplied path, a bare file name included: no
\* missing path component makes save fail.
C14_SaveCreatesParents ==
    /\ exception # "FileNotFoundError"
    /\ \A f \in files : Dirname(f.path) \in dirs

\* The tables among the body items of a written document
TablesOf(body) == {i \in 1..Len(body) : body[i].kind # "p"}

\* C16: the Quick Start sequence -- construct, set_* / add_*, save(path) with
\* no build() -- writes a document that holds the metadata table and the
\* content tables of its template.
C16_SaveWritesBuiltDocument ==
    \A f \in files :
        /\ TablesOf(f.body) # {}
        /\ f.body[1].kind = "meta"
        /\ Cardinality(TablesOf(f.body)) >= 2

\* The number of content tables a template has
ContentTableCount ==
    CASE kind \in GroupAKinds \cup GroupBKinds -> 1
      [] kind = "Test" -> 2
      [] kind \in {"Activity", "Video"} -> Len(scenes)
      [] OTHER -> 0

\* C18: after build() the body holds the metadata table first and then the
\* content tables of its template: 2 tables in all for Group A and B, 3 for
\* Test, 1 + the number of scenes for Activity and Video, with or without
\* header logos.
C18_BodyTableCount ==
    built =>
        /\ doc[1].kind = "meta"
        /\ Cardinality(TablesOf(doc)) = 1 + ContentTableCount
        /\ \A i \in TablesOf(doc) : i > 1 => doc[i].kind # "meta"

\* A built Video document with logos in its header and one table per scene
C18_Witness ==
    /\ built /\ kind = "Video" /\ Len(scenes) = MaxScenes
    /\ page_header.table /\ page_header.pictures = <<"logo_left", "logo_right">>
    /\ Cardinality(TablesOf(doc)) = 1 + MaxScenes

\* The text a metadata table shows in the value cell of its element-code
\* row (row 1, column 1)
ElementCodeShown(t) ==
    LET rc == CellAt(t, 1, 1)
        runs == t.rows[rc[1]][rc[2]].paras[1].runs
    IN IF runs = <<>> THEN "" ELSE runs[1].text

\* C19: build() shows, in the element-code row, project_code + "_U" + the
\* zero-padded unit when set_element_code was never called, and the last
\* code set otherwise, for every builder class.
C19_ElementCodeRow ==
    [][(~built /\ built') =>
          ElementCodeShown(doc'[1]) =
              IF element_code = ""
              THEN AutoElementCode(project_code, unit_number)
              ELSE element_code]_vars

\* Every run of the written parts of a document: the runs of the body's
\* table cells and the runs of the footer paragraph
BodyRuns ==
    UNION {UNION {UNION {UNION {{doc[i].rows[r][c].paras[p].runs[k] :
                                    k \in 1..Len(doc[i].rows[r][c].paras[p].runs)} :
                                p \in 1..Len(doc[i].rows[r][c].paras)} :
                         c \in 1..Len(doc[i].rows[r])} :
                  r \in 1..Len(doc[i].rows)} :
           i \in TablesOf(doc)}

FooterRuns == {page_footer[k] : k \in 1..Len(page_footer)}

\* C20: every emitted run has its complex-script font and its RTL flag set
\* together: none has a w:cs font without w:rtl, none w:rtl without a w:cs
\* font.
C20_RtlAndCsFontTogether ==
    \A run \in BodyRuns \cup FooterRuns : (run.cs # "") <=> run.rtl

----------------------------------------------------------------------------
(* Claims about the slide list of LectureBuilder (checked under SpecLecture) *)

ListedRIds(p) == {p.sldIdLst[i].rId : i \in 1..Len(p.sldIdLst)}
SlideRels(p) == {r \in p.rels : r.reltype = "slide"}
LiveSlidePart(p, target) == target \in 1..Len(p.parts) /\ ~p.parts[target].example

\* C15: after construction and after any add_* calls the slide-id list and
\* the slide relationships of the presentation correspond one to one: every
\* listed slide has a relationship to an existing slide part, no
\* relationship leads to a removed example slide, no example slide is
\* listed.
C15_SlideListMatchesRels ==
    /\ \A i, j \in 1..Len(prs.sldIdLst) :
          i # j => /\ prs.sldIdLst[i].rId # prs.sldIdLst[j].rId
                   /\ prs.sldIdLst[i].id # prs.sldIdLst[j].id
                   /\ prs.parts[SlideAt(prs, i)].partname # prs.parts[SlideAt(prs, j)].partname
    /\ \A i \in 1..Len(prs.sldIdLst) : LiveSlidePart(prs, SlideAt(prs, i))
    /\ \A r \in SlideRels(prs) : r.rId \in ListedRIds(prs) /\ LiveSlidePart(prs, r.target)
    /\ \A r, q \in prs.rels : r.rId = q.rId => r = q

\* A builder made from a template with example slides, with slides added
C15_Witness ==
    /\ \E i \in 1..Len(prs.parts) : prs.parts[i].example
    /\ Len(prs.sldIdLst) >= 2
    /\ Cardinality(SlideRels(prs)) = Len(prs.sldIdLst)

\* The positions in the slide list of the slides that have a btn_start shape
TitleSlidesOf(p) ==
    {i \in 1..Len(p.sldIdLst) : FirstShapeNamed(p.parts[SlideAt(p, i)], "btn_start") # 0}

\* C17: save runs finalize before it writes, and in the file written the
\* btn_start of the title slide (the first one, if there are several) has
\* the second slide as its click target whenever there is more than one
\* slide, whatever the order of the add_* calls.
C17_SavedStartButtonLinked ==
    \A f \in pptx_files :
        /\ Finalize(f.prs) = f.prs
        /\ (Len(f.prs.sldIdLst) > 1 /\ TitleSlidesOf(f.prs) # {}) =>
              LET i == CHOOSE t \in TitleSlidesOf(f.prs) : \A u \in TitleSlidesOf(f.prs) : t <= u
                  part == f.prs.parts[SlideAt(f.prs, i)]
              IN part.shapes[FirstShapeNamed(part, "btn_start")].target_slide = SlideAt(f.prs, 2)

----------------------------------------------------------------------------
(* Claims about the cells and paragraphs of a built document (SpecBuilder) *)

\* The cells of the tables of the body, each with its table and row index
BodyCells ==
    UNION {UNION {{[t |-> i, r |-> r, cell |-> doc[i].rows[r][c]] :
                      c \in 1..Len(doc[i].rows[r])} :
                  r \in 1..Len(doc[i].rows)} :
           i \in TablesOf(doc)}

\* C24: after build() every table cell has at most one w:tcBorders and at
\* most one w:shd; the merged header cell of the metadata table gets its
\* border override exactly once.
C24_OneBorderOverridePerCell ==
    built =>
        /\ \A bc \in BodyCells :
              /\ CountTag(bc.cell.tcPr, "tcBorders") <= 1
              /\ CountTag(bc.cell.tcPr, "shd") <= 1
        /\ \E bc \in BodyCells :
              bc.t = 1 /\ bc.r = 1 /\ CountTag(bc.cell.tcPr, "tcBorders") = 1

\* The paragraphs of the cells of the body
BodyParas ==
    UNION {{bc.cell.paras[p] : p \in 1..Len(bc.cell.paras)} : bc \in BodyCells}

\* C25: the paragraph properties _write_cell leaves behind are in schema
\* order (bidi, spacing, jc), and docx_set_paragraph_rtl called again on
\* such a paragraph adds no second w:bidi.
C25_PPrInSchemaOrder ==
    \A para \in BodyParas :
        /\ InSchemaOrder(para.pPr, PPrTagSeq)
        /\ HasTag(para.pPr, "bidi") =>
              CountTag(DocxSetParagraphRtl(para).pPr, "bidi") = 1

----------------------------------------------------------------------------
(* Claims about the list regions of the slide methods (SpecAllocator) *)

\* The calls the slide methods make: <<available_top, available_bottom,
\* min_item_height, least item count>> of add_objectives_slide,
\* add_drag_drop_slide, add_click_reveal_slide (vertical list, more than 4
\* items) and add_dropdown_slide
ListRegionCalls ==
    { <<2315612, 6300000, 600002, 1>>, <<Cm(850), 6300000, Cm(200), 1>>,
      <<Cm(650), 6300000, Cm(180), 5>>, <<Cm(700), 6300000, Cm(180), 1>> }

IsListRegionCall ==
    \E c \in ListRegionCalls :
        /\ available_top = c[1] /\ available_bottom = c[2]
        /\ min_item_height = c[3] /\ item_count >= c[4]

\* row_top = top + i * row_step, with row_step = height + gap
ItemTop(i) == available_top + i * (item_height + gap)

C27_SlideCountMatchesSlides ==
    /\ [](slide_count = Len(prs.sldIdLst))
    /\ [][calls' # calls =>
             /\ slide_count' = slide_count + 1
             /\ Len(prs'.sldIdLst) = Len(prs.sldIdLst) + 1]_vars

\* A builder made from a template with example slides, two slides added
C27_Witness ==
    /\ \E i \in 1..Len(prs.parts) : prs.parts[i].example
    /\ Len(calls) = 2 /\ slide_count = 2 /\ Len(prs.sldIdLst) = 2

----------------------------------------------------------------------------
(* Claims about the slide methods of LectureBuilder *)

ListMethods == {"add_objectives_slide", "add_drag_drop_slide", "add_dropdown_slide",
                "add_click_reveal_slide", "add_content_with_cards"}

\* C23: a list-like slide method called with an empty item list skips the
\* item region and completes normally: the slide is added, slide_count is
\* raised and no exception escapes.
C23_EmptyListCompletes ==
    (calls # <<>> /\ calls[Len(calls)] \in ListMethods /\ last_args.items = 0) =>
        /\ exception = ""
        /\ slide_count = Len(calls)
        /\ Len(prs.sldIdLst) = Len(calls)

\* The names of the shapes of the i-th slide of a presentation
ShapeNames(p, i) ==
    LET part == p.parts[SlideAt(p, i)]
    IN {part.shapes[k].name : k \in 1..Len(part.shapes)}

\* The image source a content slide shows
UsedSource(p, i) ==
    LET part == p.parts[SlideAt(p, i)]
        k == FirstShapeNamed(part, "img_content")
    IN IF k # 0 THEN part.shapes[k].image
       ELSE IF "Rounded Rectangle" \in ShapeNames(p, i) THEN "placeholder"
       ELSE "none"

\* The source the priority order asks for: the real file, else the
\* generated image, else the placeholder, else nothing
ExpectedSource(args) ==
    IF args.image_path = "existing" THEN "existing"
    ELSE IF args.image_prompt = "succeeds" THEN "generated"
    ELSE IF args.image_placeholder # "" THEN "placeholder"
    ELSE "none"

\* C26: add_content_slide takes its image from the first available source
\* in the order real file, generated image, gray placeholder, none.
C26_ImageSourcePriority ==
    (calls # <<>> /\ calls[Len(calls)] = "add_content_slide") =>
        UsedSource(prs, Len(prs.sldIdLst)) = ExpectedSource(last_args)

----------------------------------------------------------------------------
\* Two builder instances in one process.  Every list, dict, Document and
\* Presentation is an object of the process: a builder attribute holds a
\* reference to one (0 for an attribute the class does not have).  A frame
\* is a process seen from one builder: the objects (heap), the image files
\* under output/<project>/U<unit>/images, and the builder's attributes.

Builders == {1, 2}
MaxPairCalls == 3
PairKinds == {"Infographic", "Test", "Video", "Lecture"}
ImagePrompts == {"prompt a", "prompt b"}

\* Document(): a new document object
NewDocument == [body |-> <<>>, header |-> NoHeader, footer |-> <<>>]

\* The process before any builder is made; object 1 is the list the caller
\* passes as narration_segments, to either builder
NewProcess == [heap |-> << Segments(1) >>, images |-> {}, self |-> <<>>]
CallerSegments == Len(NewProcess.heap)

\* __init__ of the class: DocxBuilder makes self.doc = Document(); then
\* self._content_values = [""] * 4, self._questions = [], self._scenes = [],
\* each a new object.  LectureBuilder makes self.prs and sets
\* self.slide_count = 0 and self._content_layout_cycle = 0.
Construct(f, k, unit) ==
    LET base == Len(f.heap)
        objects == IF k = "Lecture" THEN <<BlankPresentation>>
                   ELSE IF k \in GroupAKinds THEN <<NewDocument, <<"", "", "", "">> >>
                   ELSE <<NewDocument, <<>> >>
    IN [f EXCEPT !.heap = @ \o objects,
                 !.self = [kind |-> k, project_code |-> "DSAI", unit_number |-> unit,
                           element_code |-> "", element_name |-> "",
                           doc |-> IF k = "Lecture" THEN 0 ELSE base + 1,
                           prs |-> IF k = "Lecture" THEN base + 1 ELSE 0,
                           content_values |-> IF k \in GroupAKinds THEN base + 2 ELSE 0,
                           test_info |-> <<"", "">>,
                           questions |-> IF k = "Test" THEN base + 2 ELSE 0,
                           scenes |-> IF k = "Video" THEN base + 2 ELSE 0,
                           slide_count |-> 0, content_layout_cycle |-> 0,
                           built |-> FALSE, ncalls |-> 0]]

\* The process as builder b sees it
Frame(b) == [heap |-> world.heap, images |-> world.images, self |-> world.inst[b]]

\* The object a reference leads to
Deref(f, ref) == IF ref = 0 THEN <<>> ELSE f.heap[ref]

\* self._scenes with the segments list of each scene
ScenesOf(f) ==
    LET list == Deref(f, f.self.scenes)
    IN [i \in 1..Len(list) |-> [list[i] EXCEPT ![4] = f.heap[@]]]

\* The state of a builder: its content values, question and scene lists,
\* slide count, layout cycle, document and presentation
View(f) ==
    [content_values |-> Deref(f, f.self.content_values),
     questions |-> Deref(f, f.self.questions),
     scenes |-> ScenesOf(f),
     slide_count |-> f.self.slide_count,
     content_layout_cycle |-> f.self.content_layout_cycle,
     element_code |-> f.self.element_code,
     doc |-> Deref(f, f.self.doc),
     prs |-> Deref(f, f.self.prs)]

\* self._content_values[i] = value
SetContentValue(f, i, value) == [f EXCEPT !.heap[f.self.content_values][i] = value]

\* self._questions.append({...})
AppendQuestion(f, q) == [f EXCEPT !.heap[f.self.questions] = Append(@, q)]

\* VideoBuilder.add_scene: narration_segments None (0) gives a new list of
\* one empty segment; a list passed in is stored as it is, not copied
AppendScene(f, description, narration_segments) ==
    LET g == IF narration_segments = 0
             THEN [f EXCEPT !.heap = Append(@, << <<"", "", "", "">> >>)]
             ELSE f
        segs == IF narration_segments = 0 THEN Len(g.heap) ELSE narration_segments
    IN [g EXCEPT !.heap[f.self.scenes] = Append(@, <<"scene", description, "", segs>>)]

\* DocxBuilder.build on the builder's own document
BuildDocument(f) ==
    LET s == f.self
        h == BuildHeader("", "")
        code == IF s.kind # "Video" /\ s.element_code = ""
                THEN AutoElementCode(s.project_code, s.unit_number)
                ELSE s.element_code
        meta == IF s.kind = "Video"
                THEN VideoCreateMetadataTable(code, s.element_name)
                ELSE CreateMetadataTable(code, s.element_name)
        items == BuildContent(s.kind, Deref(f, s.content_values), s.test_info,
                              Deref(f, s.questions), ScenesOf(f))
    IN [f EXCEPT !.heap[s.doc] = [body |-> @.body \o <<meta, BodyParagraph>> \o items,
                                  header |-> [table |-> h.table, pictures |-> h.pictures],
                                  footer |-> AddFooter],
                 !.self.element_code = code,
                 !.self.built = TRUE]

\* generate_storyboard_image with a topic_key: the file
\* output/<project_code>/U<unit>/images/<topic_key>.png when it exists,
\* whatever it was generated from; else a new file generated from the
\* prompt, when generation succeeds; else no path (<<>>)
GenerateStoryboardImage(f, prompt, topic_key, succeeds) ==
    LET path == <<f.self.project_code, f.self.unit_number, topic_key>>
    IN IF \E im \in f.images : im.path = path
       THEN [images |-> f.images, path |-> path]
       ELSE IF succeeds
       THEN [images |-> f.images \cup {[path |-> path, picture |-> prompt]}, path |-> path]
       ELSE [images |-> f.images, path |-> <<>>]

\* add_content_with_cards with one card that has an image_prompt and no
\* title: the image is generated under topic_key "card_1"
AddCardsWithPrompt(f, prompt, succeeds) ==
    LET made == GenerateStoryboardImage(f, prompt, "card_1", succeeds)
        image == IF made.path = <<>> THEN <<>>
                 ELSE <<Picture("img_card_1",
                                (CHOOSE im \in made.images : im.path = made.path).picture)>>
    IN [f EXCEPT !.images = made.images,
                 !.heap[f.self.prs] = AddSlideWithLayout(@, 1,
                        <<Shape("header_banner"), Shape("card_1")>> \o image),
                 !.self.slide_count = @ + 1]

\* add_content_slide with bullets and no image
AddBulletsSlide(f) ==
    [f EXCEPT !.heap[f.self.prs] = AddSlideWithLayout(@, 1,
                    <<Shape("header_banner")>>
                    \o ContentBodyShapes(f.self.content_layout_cycle, FALSE, "bullets")),
              !.self.slide_count = @ + 1,
              !.self.content_layout_cycle = NextLayoutCycle(@, FALSE)]

\* Two builders are made, one after the other, in one process; alone[b] is
\* builder b made in a process of its own
InitPair ==
    /\ AllocatorIdle /\ BuilderIdle /\ doc = <<>> /\ HelpersIdle /\ LectureIdle
    /\ \E k1 \in PairKinds, k2 \in PairKinds, unit \in UnitNumbers :
          LET first == Construct(NewProcess, k1, 1)
              second == Construct(first, k2, unit)
          IN /\ world = [heap |-> second.heap, images |-> second.images,
                         inst |-> <<first.self, second.self>>]
             /\ alone = <<Construct(NewProcess, k1, 1), Construct(NewProcess, k2, unit)>>

\* Builder b makes a call: its effect on the process, and on the process
\* in which b is alone (both computed before they are stored)
Call(b, after, after_alone) ==
    /\ world' = [heap |-> after.heap, images |-> after.images,
                 inst |-> [world.inst EXCEPT ![b] = [after.self EXCEPT !.ncalls = @ + 1]]]
    /\ alone' = [alone EXCEPT ![b] = [after_alone EXCEPT !.self.ncalls = @ + 1]]
    /\ UNCHANGED <<allocVars, builderVars, doc, helperVars, lectureVars>>

CanCall(b, kinds) ==
    /\ world.inst[b].kind \in kinds
    /\ world.inst[1].ncalls + world.inst[2].ncalls < MaxPairCalls

PairSetContentRow ==
    \E b \in Builders, i \in {1, 4} :
        /\ CanCall(b, GroupAKinds)
        /\ \E after \in {SetContentValue(Frame(b), i, "text")}, after_alone \in {SetContentValue(alone[b], i, "text")} :
              Call(b, after, after_alone)

PairAddQuestion ==
    \E b \in Builders, q \in SampleQuestions :
        /\ CanCall(b, {"Test"})
        /\ \E after \in {AppendQuestion(Frame(b), q)}, after_alone \in {AppendQuestion(alone[b], q)} :
              Call(b, after, after_alone)

PairAddScene ==
    \E b \in Builders, narration_segments \in {0, CallerSegments} :
        /\ CanCall(b, {"Video"})
        /\ \E after \in {AppendScene(Frame(b), "text", narration_segments)}, after_alone \in {AppendScene(alone[b], "text", narration_segments)} :
              Call(b, after, after_alone)

PairBuild ==
    \E b \in Builders :
        /\ CanCall(b, PairKinds \ {"Lecture"}) /\ ~world.inst[b].built
        /\ \E after \in {[f \in {Frame(b), alone[b]} |-> BuildDocument(f)]} :
              Call(b, after[Frame(b)], after[alone[b]])

PairAddContentWithCards ==
    \E b \in Builders, prompt \in ImagePrompts, succeeds \in BOOLEAN :
        /\ CanCall(b, {"Lecture"})
        /\ \E after \in {AddCardsWithPrompt(Frame(b), prompt, succeeds)}, after_alone \in {AddCardsWithPrompt(alone[b], prompt, succeeds)} :
              Call(b, after, after_alone)

PairAddContentSlide ==
    \E b \in Builders :
        /\ CanCall(b, {"Lecture"})
        /\ \E after \in {AddBulletsSlide(Frame(b))}, after_alone \in {AddBulletsSlide(alone[b])} :
              Call(b, after, after_alone)

NextPair ==
    \/ PairSetContentRow \/ PairAddQuestion \/ PairAddScene \/ PairBuild
    \/ PairAddContentWithCards \/ PairAddContentSlide

SpecPair == InitPair /\ [][NextPair]_vars

\* The part of a builder's state that lives in the process's memory and
\* does not come from an image file
WithoutPictures(v) ==
    IF "parts" \notin DOMAIN v.prs THEN v
    ELSE LET parts == v.prs.parts
             Plain(part) == [part EXCEPT !.shapes = SelectSeq(@, LAMBDA sh : "image" \notin DOMAIN sh)]
         IN [v EXCEPT !.prs.parts = [i \in 1..Len(parts) |-> Plain(parts[i])]]

\* C21: whatever calls are made on the two builders and in whatever order,
\* the state of each -- content values, question and scene lists, slide
\* count, layout cycle, document and presentation -- is what it would be
\* had the other builder's calls not happened.
C21_BuildersIndependent == \A b \in Builders : View(Frame(b)) = View(alone[b])

\* The same without the pictures placed on the slides
PairMemoryIndependent ==
    \A b \in Builders : WithoutPictures(View(Frame(b))) = WithoutPictures(View(alone[b]))

============================================================================
